---- MODULE Spec2Model ----
(***************************************************************************)
(* Balux BIM viewer: the tool state machine, the hover coordinator, the    *)
(* visibility engine and the cut queue of ViewerApp, as state machines.    *)
(*                                                                         *)
(* Execution model (single-threaded JavaScript): an async function runs    *)
(* synchronously up to its next await.  A continuation whose awaited value *)
(* is already settled is a microtask; a user event, an animation-frame     *)
(* callback or the completion of a collaborator's operation (highlighter,  *)
(* hider, raycast) is a task, and a task starts only when no microtask is  *)
(* pending.  The order among pending microtasks is left open.              *)
(* A point of the scene is named by the element it lies on.  The history   *)
(* log and the toasts are not part of the state.                           *)
(***************************************************************************)
EXTENDS Integers, Sequences, FiniteSets, TLC

----------------------------------------------------------------------------
(* Bounds of the model *)

\* setActiveTool calls that may be in progress at once
MaxCalls == 2
\* hoverFromPointerEvent requests that may be in progress at once
MaxHover == 2
\* cap of ViewerApp.hoverRequestSerial
MaxHoverSerial == 4
\* cap of MeasureTool.moveRequestSerial
MaxMoveSerial == 4
\* hoverFromPointerEvent requests in progress at once while tools switch
MaxToolsHover == 1
\* hit-tests MeasureTool may have in flight at once
MaxRays == 1
\* measurements that may exist at once
MaxMeasurements == 1
\* visibility operations that may be in progress at once
MaxVisOps == 2
\* visibility operations started in one behaviour
MaxOps == 3
\* pointer positions along the drag axis: 0..MaxPx
MaxPx == 1
\* awaited clearHover / clearSelection calls in progress at once
MaxClearCalls == 2
\* selectFromKey calls in progress at once
MaxSelCalls == 1
\* highlighter.clear calls of one style left running by a timeout
MaxOrphans == 1
\* materials of the scene's meshes
MaxMats == 2
\* poses of the section box (0: the unit box at the origin)
MaxPose == 1
\* ids MeasurementManager.add may hand out: 1..MaxMmIds
MaxMmIds == 3
\* coordinates of a measured point: 0..MaxCoord
MaxCoord == 1
\* loadIfcFromBuffer / loadGlbFromBuffer calls in progress at once
MaxLoads == 2
\* loads started in one behaviour; the n-th load brings model n
MaxLoadsStarted == 3
\* buildGeometryBVH calls that may be in progress at once
MaxBvhCalls == 2
\* geometries of the object a bounds tree is built for
MaxGeoms == 2
\* length of a string typed into a field of the property filter
MaxStrLen == 1
\* entries the history may grow by
MaxHistory == 2
\* local ids of the elements of the loaded model: 1..NumElems
NumElems == 2
\* the largest coordinate of a cut sample and the largest cut offset
MaxSample == 3
\* "change" events of the transform controls between two animation frames
MaxChanges == 2

CallIds == 1..MaxCalls
ClrIds == 1..MaxClearCalls
SelIds == 1..MaxSelCalls
Mats == 1..MaxMats
Poses == 0..MaxPose
MmIds == 1..MaxMmIds
BvhIds == 1..MaxBvhCalls
LdIds == 1..MaxLoads
LdModels == 1..MaxLoadsStarted
Geoms == 1..MaxGeoms
\* the points a measurement may start or end at
Points == (0..MaxCoord) \X (0..MaxCoord)
HoverIds == 1..MaxHover
ToolsHoverIds == 1..MaxToolsHover
RayIds == 1..MaxRays
VisIds == 1..MaxVisOps
Px == 0..MaxPx
Elems == 1..NumElems
\* 0 stands for null (no key, no hit)
NoKey == 0
\* what a pointer event points at: an element, or 0 for empty space
Targets == 0..NumElems
\* a null PointerEvent reference
NoEv == -1
\* SelectTool.clickThresholdPx
clickThresholdPx == 5
\* the coordinates of the pointer events of a click, in px: distances below,
\* at and above the threshold occur among them
ClickCoords == {0, 3, 4, 6}
\* SelectTool.pointerDown when it is null
NoDown == [set |-> FALSE, x |-> 0, y |-> 0, multi |-> FALSE]
\* store.cut.min and store.cut.max, in units of the pointer positions
CutMin == -1
CutMax == 1

\* the one loaded IFC model
ModelIds == {"m1"}
\* the empty ModelIdMap
EmptyMap == [m \in {} |-> {}]
\* class and storey groups built by buildGroupsForModel
ClassIds == {"IFCWALL", "IFCSLAB"}
StoreyIds == {"s1"}

----------------------------------------------------------------------------
(* Tools *)

ToolIds == {"select", "measure", "cut", "section", "transform"}

\* the tools the ViewerApp constructor registers
Registered == {"select", "measure", "cut", "section"}

\* ViewerTool.cursor of each registered tool
ToolCursor(t) ==
  CASE t = "select" -> "default"
    [] t = "measure" -> "crosshair"
    [] t = "cut" -> "crosshair"
    [] t = "section" -> "default"

VARIABLES
  \* ToolManager and ViewerApp.setActiveTool
  active,             \* ToolManager._active: a tool id or "none"
  storeActiveTool,    \* store.activeTool
  cursor,             \* domElement.style.cursor
  enabled,            \* per tool: onEnable invoked with no later onDisable
  calls,              \* the setActiveTool calls: pc, target id, tool disabled
  evTick,             \* flips on every event the ToolManager forwards
  \* SelectTool
  selRaf, selLastMoveEv, selPointerDown, selHoverSuspended,
  \* hover coordinator of ViewerApp
  hasIfc,             \* fragments.list.size > 0
  hoverRequestSerial, hovered, hasHoverHighlight, hoverClearInFlight,
  hlHover,            \* elements carrying the highlighter's hover style
  hov,                \* the hoverFromPointerEvent requests
  selection,          \* store.selection (local ids of the loaded model)
  primarySelection,   \* store.primarySelection, NoKey for null
  \* MeasureTool
  mStart, mShortestFrom, mPreview, mPreviewVisible, mMoveRaf, mLastMoveEv,
  moveRequestSerial,
  rays,               \* the hit-tests MeasureTool has in flight
  measurementMode,    \* store.measurementMode
  measurements,       \* the measurements added, in order
  coordinates,        \* store.coordinates: the point last sampled
  toasts,             \* titles of the error notifications shown
  \* CutTool, store.cut and the cut queue flags
  cutDragging, dragStartPx, dragStartOffset,
  cutEnabled, cutOrientation, cutOffset, cutFlip,
  cutApplyQueued, cutApplyRaf, disposed,
  \* SectionBoxTool and store.section
  sectionEnabled, boxEditing,
  sectionInvert,      \* store.section.invert
  \* visibility engine of ViewerApp and the hider
  classVisibility, storeyVisibility, manualHidden, cutHidden, filteredOut,
  appliedHidden, visibilityForceFullApply, isolateActive,
  hiderHidden,        \* elements the hider holds hidden
  vis,                \* the visibility operations in progress
  cutApplyInFlight,   \* ViewerApp.cutApplyInFlight
  cutIgnoredClasses,  \* store.cut.ignoredClasses
  loading,            \* loadIfcFromBuffer is before its line 1878
  opsStarted,         \* operations started so far that took a slot of vis
  \* the select highlight and the clear coalescers of ViewerApp
  hasSelectHighlight, \* ViewerApp.hasSelectHighlight
  selectClearInFlight,\* ViewerApp.selectClearInFlight is a promise (not null)
  hlSelect,           \* elements the highlighter shows in the select style
  clearOrphans,       \* per style: highlighter.clear calls still running
                      \* after their settleOrWarn timed out
  clr,                \* awaited clearHover / clearSelection calls
  selCalls,           \* selectFromKey calls in progress
  \* SectionManager
  smEnabled, smMode, smInvert,
  smActive,           \* which array activePlanes refers to
  smArrayLen,         \* the length of noPlanes, planePlanes and boxPlanes
  smPlaneAxis, smPlaneOffset, smLockRotation,
  smPlane,            \* the axis, offset and invert the plane was set from
  smBoxPose,          \* position, rotation and scale of the box gizmo
  smBoxPlanes,        \* the pose and invert the six box planes were set from
  smBoxRaf,           \* SectionManager.boxPlaneUpdateRaf is set
  smBoxFrames,        \* animation-frame callbacks of queueBoxPlaneUpdate the browser holds
  smChanges,          \* "change" events that asked for an update since the last such callback
  smMaterials,        \* SectionManager.materials
  matPlanes,          \* clippingPlanes of each material: an array or "null"
  matClipIntersection,\* clipIntersection of each material
  \* MeasurementManager
  mmItems,            \* MeasurementManager.items: id -> start and end
  mmGroup,            \* children of the Measurements group: <<id, part>>
  mmInScene,          \* the Measurements group is a child of the scene
  mmDisposals,        \* per id: how often its visuals were disposed
  mmNextId,           \* the id createId returns next
  mmGiven,            \* per id handed out: the points add was called with
  mmLive,             \* ids added and not since removed or cleared
  \* the property filter of the store
  pf,                 \* store.propertyFilter
  pfHistory,          \* number of entries pushed to store.history
  pfOutcome,          \* how the last importPropertyFilterJson call ended
  pfCall,             \* the import made by the last step and its input
  \* BvhManager
  bvhWorker,          \* BvhManager.worker is a Worker (not null)
  bvhDisabled,        \* BvhManager.workerDisabled
  bvhPending,         \* keys of BvhManager.pending
  bvhReq,             \* the buildGeometryBVH calls: pc and path taken
  bvhCreated,         \* Workers constructed so far
  bvhBuilt,           \* geometries that have a boundsTree
  \* the loaders of ViewerApp
  ldCalls,            \* the load calls: pc, kind, the model they bring,
                      \* the models their dispose loop has visited
  ldStarted,          \* loads started so far
  storeLoading,       \* store.loading.active
  sceneModels,        \* models whose object is a child of the scene
  fragList,           \* keys of fragments.list
  glbRoot,            \* ViewerApp.glbRoot: a model or 0 for null
  ldDisposing,        \* models whose dispose() has not settled
  ldDisposeCalls,     \* per model: how often dispose() was called
  ldCaches,           \* models the per-model derived caches hold data of
  csSamples,          \* cut samples of a model: per local id sampleX, sampleZ, classId
  csCut,              \* the store's cut state a run of applyCutFromState reads
  csHidden,           \* the hidden map that run computes from them
  itemBoxes,          \* itemBoxesByModel: the elements with a cached box
  measurementMeta     \* ViewerApp.measurementMeta: id -> mode

toolVars == <<active, storeActiveTool, cursor, enabled, calls, evTick>>
selVars == <<selRaf, selLastMoveEv, selPointerDown, selHoverSuspended>>
hoverVars == <<hoverRequestSerial, hovered, hasHoverHighlight,
               hoverClearInFlight, hlHover, hov>>
measTool == <<mStart, mShortestFrom, mPreview, mPreviewVisible, mMoveRaf,
              mLastMoveEv, moveRequestSerial>>
measStore == <<measurementMode, measurements, coordinates, toasts>>
measVars == <<measTool, rays, measStore>>
cutDrag == <<cutDragging, dragStartPx, dragStartOffset>>
cutStore == <<cutEnabled, cutOrientation, cutOffset, cutFlip>>
cutQueue == <<cutApplyQueued, cutApplyRaf>>
cutVars == <<cutDrag, cutStore, cutQueue, disposed>>
secVars == <<sectionEnabled, boxEditing, sectionInvert>>
visVars == <<classVisibility, storeyVisibility, manualHidden, cutHidden,
             filteredOut, appliedHidden, visibilityForceFullApply,
             isolateActive, hiderHidden>>
engineVars == <<visVars, vis, cutApplyInFlight, cutIgnoredClasses, loading,
                opsStarted>>
\* what no action of the visibility engine or the cut queue writes
uiVars == <<toolVars, selVars, hoverVars, measVars, cutDrag, secVars>>
viewVars == <<toolVars, selVars, hasIfc, hoverVars, selection, primarySelection, measVars,
              cutVars, secVars, engineVars>>
clearVars == <<hasSelectHighlight, selectClearInFlight, hlSelect,
               clearOrphans, clr, selCalls>>
\* the parts of the viewer that tool switching, hovering, measuring,
\* visibility and the cut queue do not touch
smVars == <<smEnabled, smMode, smInvert, smActive, smArrayLen, smPlaneAxis,
            smPlaneOffset, smLockRotation, smPlane, smBoxPose, smBoxPlanes,
            smBoxRaf, smBoxFrames, smChanges, smMaterials, matPlanes,
            matClipIntersection>>
mmVars == <<mmItems, mmGroup, mmInScene, mmDisposals, mmNextId, mmGiven,
            mmLive>>
pfVars == <<pf, pfHistory, pfOutcome, pfCall>>
bvhVars == <<bvhWorker, bvhDisabled, bvhPending, bvhReq, bvhCreated,
             bvhBuilt>>
ldModelVars == <<sceneModels, fragList, glbRoot, ldDisposing, ldDisposeCalls>>
ldVars == <<ldCalls, ldStarted, storeLoading, ldModelVars, ldCaches>>
csVars == <<csSamples, csCut, csHidden, itemBoxes>>
metaVars == <<measurementMeta>>
sysVars == <<clearVars, smVars, mmVars, pfVars, bvhVars, ldVars, csVars,
             metaVars>>
\* what the clear coalescers and the viewer's tools do not touch
notClear == <<smVars, mmVars, pfVars, bvhVars, ldVars, csVars, metaVars>>
\* everything but the SectionManager
notSection == <<viewVars, clearVars, mmVars, pfVars, bvhVars, ldVars,
                csVars, metaVars>>
\* everything but the MeasurementManager
notMeasurements == <<viewVars, clearVars, smVars, pfVars, bvhVars, ldVars,
                     csVars, metaVars>>
\* everything but the property filter
notFilter == <<viewVars, clearVars, smVars, mmVars, bvhVars, ldVars,
               csVars, metaVars>>
\* everything but the BvhManager
notBvh == <<viewVars, clearVars, smVars, mmVars, pfVars, ldVars, csVars,
            metaVars>>
\* everything but the cut computation on given samples
notCutSamples == <<viewVars, clearVars, smVars, mmVars, pfVars, bvhVars,
                   ldVars, metaVars>>
vars == <<viewVars, sysVars>>

\* slot i is the first free one: a new call, request or hit-test takes it
FirstIdle(slots, i) ==
  /\ slots[i].pc = "idle"
  /\ \A j \in DOMAIN slots : j < i => slots[j].pc # "idle"

IdleCall == [pc |-> "idle", id |-> "none", from |-> "none"]
IdleRay == [pc |-> "idle", mode |-> "point", requestId |-> 0, target |-> NoKey,
            start |-> NoKey]
IdleVis == [pc |-> "idle", caller |-> "none", nextHide |-> EmptyMap,
            toShow |-> EmptyMap, toHide |-> EmptyMap, hidden |-> EmptyMap]
IdleHov == [pc |-> "idle", requestId |-> 0, key |-> NoKey, excl |-> {}]
IdleClr == [pc |-> "idle", style |-> "none"]
IdleSel == [pc |-> "idle", key |-> NoKey, map |-> {}, multi |-> FALSE]
IdleBvh == [pc |-> "idle", path |-> "none", geom |-> 0]
IdleLoad == [pc |-> "idle", kind |-> "none", model |-> 0, visited |-> {},
             cur |-> 0]

\* continuations that are pending microtasks
MicroPending ==
  \/ \E c \in CallIds : calls[c].pc \in {"awDisable", "awEnable", "afterSetActive"}
  \/ \E h \in HoverIds : hov[h].pc \in {"rayMicro", "awClear"}
  \/ \E r \in RayIds : rays[r].pc \in {"downMicro", "previewMicro", "shortestRet"}
  \/ \E o \in VisIds : vis[o].pc = "ret"
  \/ \E k \in ClrIds : clr[k].pc = "ret"
  \/ \E q \in SelIds : selCalls[q].pc = "awClear"
  \/ \E r \in BvhIds : bvhReq[r].pc \in {"resolved", "rejected", "done"}
  \/ \E l \in LdIds :
       \/ ldCalls[l].pc = "disposeNext"
       \/ ldCalls[l].pc = "awSel" /\ ~selectClearInFlight
       \/ ldCalls[l].pc = "awHov" /\ ~hoverClearInFlight

----------------------------------------------------------------------------
(* Hover coordinator (ViewerApp.clearHover, hoverFromPointerEvent) *)

hover5 == <<hoverRequestSerial, hovered, hasHoverHighlight,
            hoverClearInFlight, hlHover>>

\* whether a clearHover call made now reaches one of its awaits
ClearHoverWaits == hasHoverHighlight /\ hasIfc

\* clearHover from its first line to its first await (or its return): the
\* serial is advanced, store.hovered is nulled, and a highlighter clear is
\* started unless one is in flight already
ClearHoverSync ==
  /\ hoverRequestSerial < MaxHoverSerial
  /\ hoverRequestSerial' = hoverRequestSerial + 1
  /\ hovered' = NoKey
  /\ hasHoverHighlight' = (hasHoverHighlight /\ hasIfc)
  /\ hoverClearInFlight' = (hoverClearInFlight \/ ClearHoverWaits)
  /\ UNCHANGED hlHover

\* the two highlight styles ViewerApp clears through a coalescer
Styles == {"hover", "select"}

\* hoverClearInFlight / selectClearInFlight holds a promise
ClearInFlight(style) ==
  IF style = "hover" THEN hoverClearInFlight ELSE selectClearInFlight

\* the settleOrWarn of a clearTask settles, because highlighter.clear(style)
\* settled or (byTimeout) because its 1200 ms timer fired first: clearTask
\* resets the has...Highlight flag, the finally handler nulls the promise
\* field, every caller awaiting the promise resumes. After a timeout the
\* highlighter's clear is still running.
ClearPromiseSettles(style, byTimeout) ==
  /\ ~MicroPending
  /\ ClearInFlight(style)
  /\ IF style = "hover"
     THEN /\ hlHover' = IF byTimeout THEN hlHover ELSE {}
          /\ hasHoverHighlight' = FALSE
          /\ hoverClearInFlight' = FALSE
          /\ hov' = [h \in HoverIds |->
                       IF hov[h].pc = "awClearExt"
                       THEN [hov[h] EXCEPT !.pc = "awClear"]
                       ELSE hov[h]]
          /\ calls' = [c \in CallIds |->
                       IF calls[c].pc = "awDisableExt"
                       THEN [calls[c] EXCEPT !.pc = "awDisable"]
                       ELSE calls[c]]
          /\ UNCHANGED <<hasSelectHighlight, selectClearInFlight, hlSelect, selCalls>>
     ELSE /\ hlSelect' = IF byTimeout THEN hlSelect ELSE {}
          /\ hasSelectHighlight' = FALSE
          /\ selectClearInFlight' = FALSE
          /\ selCalls' = [q \in SelIds |->
                       IF selCalls[q].pc = "awClearExt"
                       THEN [selCalls[q] EXCEPT !.pc = "awClear"]
                       ELSE selCalls[q]]
          /\ UNCHANGED <<hlHover, hasHoverHighlight, hoverClearInFlight, hov,
                         calls>>
  /\ clr' = [k \in ClrIds |->
               IF clr[k].pc = "wait" /\ clr[k].style = style
               THEN [clr[k] EXCEPT !.pc = "ret"]
               ELSE clr[k]]
  /\ IF byTimeout
     THEN /\ clearOrphans[style] < MaxOrphans
          /\ clearOrphans' = [clearOrphans EXCEPT ![style] = @ + 1]
     ELSE UNCHANGED clearOrphans
  /\ UNCHANGED <<active, storeActiveTool, cursor, enabled, evTick,
                 selVars, hasIfc, hoverRequestSerial, hovered, selection, primarySelection,
                 measVars, cutVars, secVars, engineVars>>
  /\ UNCHANGED notClear

\* highlighter.clear("hover") settles before the timer of settleOrWarn
HoverClearSettles == ClearPromiseSettles("hover", FALSE)

\* the result of the hit-test of a pointer event: the element it points at
\* when an IFC model is loaded, no hit otherwise
RaycastHit(target) == IF hasIfc THEN target ELSE NoKey

\* hoverFromPointerEvent from its first line to the raycast await
HoverStart(h, ev) ==
  /\ FirstIdle(hov, h)
  /\ hoverRequestSerial < MaxHoverSerial
  /\ hoverRequestSerial' = hoverRequestSerial + 1
  /\ hov' = [hov EXCEPT ![h] = [pc |-> IF hasIfc THEN "ray" ELSE "rayMicro",
                                requestId |-> hoverRequestSerial + 1,
                                key |-> ev, excl |-> {}]]
  /\ UNCHANGED <<hovered, hasHoverHighlight, hoverClearInFlight, hlHover>>

\* a request that never looks at the serial
SerialCurrent_always(requestId) == TRUE

\* whether a request may go on after an await: its serial is still current
SerialCurrent(requestId) == requestId = hoverRequestSerial

\* the raycast of request h resolves: lines 1342-1371
HoverRaycastResolves(h) ==
  /\ \/ hov[h].pc = "ray" /\ ~MicroPending
     \/ hov[h].pc = "rayMicro"
  /\ LET r == hov[h]
         hit == RaycastHit(r.key)
     IN IF ~SerialCurrent(r.requestId)
        THEN /\ hov' = [hov EXCEPT ![h] = IdleHov]
             /\ UNCHANGED hover5
        ELSE IF hit = NoKey
        THEN IF hovered # NoKey \/ hasHoverHighlight
             THEN /\ ClearHoverSync
                  /\ hov' = [hov EXCEPT ![h].pc =
                               IF ClearHoverWaits THEN "awClearExt" ELSE "awClear"]
             ELSE /\ hov' = [hov EXCEPT ![h] = IdleHov]
                  /\ UNCHANGED hover5
        ELSE IF hovered = hit
        THEN /\ hov' = [hov EXCEPT ![h] = IdleHov]
             /\ UNCHANGED hover5
        ELSE /\ hovered' = hit
             /\ hov' = [hov EXCEPT ![h] = [r EXCEPT !.pc = "hl", !.key = hit,
                                                    !.excl = selection]]
             /\ UNCHANGED <<hoverRequestSerial, hasHoverHighlight,
                            hoverClearInFlight, hlHover>>
  /\ UNCHANGED <<toolVars, selVars, hasIfc, selection, primarySelection, measVars, cutVars, secVars, engineVars>>
  /\ UNCHANGED sysVars

\* the awaited clearHover of request h has returned: the request returns
HoverClearReturns(h) ==
  /\ hov[h].pc = "awClear"
  /\ hov' = [hov EXCEPT ![h] = IdleHov]
  /\ UNCHANGED <<toolVars, selVars, hasIfc, hover5, selection, primarySelection, measVars,
                 cutVars, secVars, engineVars>>
  /\ UNCHANGED sysVars

\* highlighter.highlightByID("hover", {key}, removePrevious, exclude) of
\* request h settles: lines 1371-1374
HoverHighlightDone(h) ==
  /\ ~MicroPending
  /\ hov[h].pc = "hl"
  /\ hlHover' = {hov[h].key} \ hov[h].excl
  /\ hasHoverHighlight' =
       IF SerialCurrent(hov[h].requestId) THEN TRUE ELSE hasHoverHighlight
  /\ hov' = [hov EXCEPT ![h] = IdleHov]
  /\ UNCHANGED <<toolVars, selVars, hasIfc, hoverRequestSerial, hovered,
                 hoverClearInFlight, selection, primarySelection, measVars, cutVars, secVars, engineVars>>
  /\ UNCHANGED sysVars

\* ViewerApp.onPointerLeave: void clearHover()
PointerLeave ==
  /\ ~MicroPending
  /\ ClearHoverSync
  /\ UNCHANGED <<toolVars, selVars, hasIfc, hov, selection, primarySelection, measVars, cutVars,
                 secVars, engineVars>>
  /\ UNCHANGED sysVars

----------------------------------------------------------------------------
(* Tool hooks *)

\* ViewerApp.getCutCursor(orientation)
GetCutCursorOf(o) == IF o = "horizontal" THEN "ns-resize" ELSE "ew-resize"

\* ViewerApp.getCutCursor()
GetCutCursor == GetCutCursorOf(cutOrientation)

\* ViewerApp.queueApplyCut: flag the request, schedule one animation frame
QueueApplyCut ==
  /\ cutApplyQueued' = (cutApplyQueued \/ ~disposed)
  /\ cutApplyRaf' = (cutApplyRaf \/ ~disposed)

\* the clamp of setCutOffset to store.cut.min .. store.cut.max
ClampOffset(o) == IF o < CutMin THEN CutMin ELSE IF o > CutMax THEN CutMax ELSE o

\* ViewerApp.setCutOffset
SetCutOffset(o) ==
  /\ cutOffset' = ClampOffset(o)
  /\ QueueApplyCut

\* ViewerApp.setCutOrientation; the loaded model's bounds are the same on
\* both axes, so syncCutRangeForOrientation keeps min, max and offset
SetCutOrientation(o) ==
  /\ cutOrientation' = o
  /\ cursor' = IF storeActiveTool = "cut" THEN GetCutCursorOf(o) ELSE cursor
  /\ QueueApplyCut

\* ViewerApp.enableCut
EnableCut(en) ==
  /\ cutEnabled' = en
  /\ QueueApplyCut

\* SelectTool.onDisable up to its await of clearHover
SelectOnDisable ==
  /\ selLastMoveEv' = NoEv
  /\ selPointerDown' = NoDown
  /\ selHoverSuspended' = FALSE
  /\ selRaf' = FALSE
  /\ ClearHoverSync

\* MeasureTool.onEnable
MeasureOnEnable ==
  /\ ClearHoverSync
  /\ moveRequestSerial < MaxMoveSerial
  /\ mStart' = NoKey
  /\ mShortestFrom' = NoKey
  /\ mLastMoveEv' = NoEv
  /\ moveRequestSerial' = moveRequestSerial + 1
  /\ mMoveRaf' = FALSE
  /\ mPreview' = TRUE
  /\ mPreviewVisible' = FALSE

\* MeasureTool.onDisable
MeasureOnDisable ==
  /\ moveRequestSerial < MaxMoveSerial
  /\ mStart' = NoKey
  /\ mShortestFrom' = NoKey
  /\ mLastMoveEv' = NoEv
  /\ moveRequestSerial' = moveRequestSerial + 1
  /\ mMoveRaf' = FALSE
  /\ mPreview' = FALSE
  /\ mPreviewVisible' = FALSE

\* the onDisable hook of tool t, up to its first await
OnDisableHook(t) ==
  CASE t = "select" ->
         /\ SelectOnDisable
         /\ UNCHANGED <<measVars, cutVars, secVars>>
    [] t = "measure" ->
         /\ MeasureOnDisable
         /\ UNCHANGED <<rays, measStore>>
         /\ UNCHANGED <<selVars, hover5, cutVars, secVars>>
    [] t = "cut" ->
         /\ cutDragging' = FALSE
         /\ EnableCut(FALSE)
         /\ UNCHANGED <<selVars, hover5, measVars, dragStartPx, dragStartOffset,
                        cutOrientation, cutOffset, cutFlip, disposed, secVars>>
    [] t = "section" ->
         /\ boxEditing' = FALSE
         /\ UNCHANGED <<selVars, hover5, measVars, cutVars, sectionEnabled,
                        sectionInvert>>

\* whether the onDisable hook of tool t is still running after its first await
OnDisableSuspends(t) == t = "select" /\ ClearHoverWaits

\* the onEnable hook of tool t; every hook is synchronous
OnEnableHook(t) ==
  CASE t = "select" ->
         UNCHANGED <<cursor, selVars, hover5, measVars, cutVars, secVars>>
    [] t = "measure" ->
         /\ MeasureOnEnable
         /\ UNCHANGED <<rays, measStore>>
         /\ UNCHANGED <<cursor, selVars, cutVars, secVars>>
    [] t = "cut" ->
         /\ cutDragging' = FALSE
         /\ cursor' = GetCutCursor
         /\ EnableCut(TRUE)
         /\ UNCHANGED <<selVars, hover5, measVars, dragStartPx, dragStartOffset,
                        cutOrientation, cutOffset, cutFlip, disposed, secVars>>
    [] t = "section" ->
         /\ sectionEnabled' = TRUE
         /\ boxEditing' = TRUE
         /\ UNCHANGED <<cursor, selVars, hover5, measVars, cutVars,
                        sectionInvert>>

----------------------------------------------------------------------------
(* ViewerApp.setActiveTool and ToolManager.setActive *)

AlreadyActive_never(t) == FALSE

\* the early return of ToolManager.setActive (line 27)
AlreadyActive(t) == active = t

\* ViewerApp.setActiveTool(t) up to the first await of ToolManager.setActive:
\* the store is set, an unregistered id throws, the active id returns, and
\* otherwise the active tool's onDisable is invoked
SetActiveToolCall(c, t) ==
  /\ FirstIdle(calls, c)
  /\ storeActiveTool' = t
  /\ IF t \notin Registered
     THEN /\ calls' = [calls EXCEPT ![c] = IdleCall]
          /\ UNCHANGED <<enabled, selVars, hover5, measVars, cutVars, secVars>>
     ELSE IF AlreadyActive(t)
     THEN /\ calls' = [calls EXCEPT ![c] =
                         [pc |-> "afterSetActive", id |-> t, from |-> "none"]]
          /\ UNCHANGED <<enabled, selVars, hover5, measVars, cutVars, secVars>>
     ELSE /\ OnDisableHook(active)
          /\ enabled' = [enabled EXCEPT ![active] = FALSE]
          /\ calls' = [calls EXCEPT ![c] =
                         [pc |-> IF OnDisableSuspends(active)
                                 THEN "awDisableExt" ELSE "awDisable",
                          id |-> t, from |-> active]]
  /\ UNCHANGED <<active, cursor, evTick, hasIfc, hov, selection, primarySelection>>

\* setActiveTool(t) called by the user interface or a key
SetActiveTool(c, t) ==
  /\ ~MicroPending
  /\ SetActiveToolCall(c, t)
  /\ UNCHANGED engineVars
  /\ UNCHANGED sysVars

\* setActive after `await this._active.onDisable(...)`: lines 33-34
AfterDisable(c) ==
  /\ calls[c].pc = "awDisable"
  /\ active' = calls[c].id
  /\ OnEnableHook(calls[c].id)
  /\ enabled' = [enabled EXCEPT ![calls[c].id] = TRUE]
  /\ calls' = [calls EXCEPT ![c].pc = "awEnable"]
  /\ UNCHANGED <<storeActiveTool, evTick, hasIfc, hov, selection, primarySelection,
                 engineVars>>
  /\ UNCHANGED sysVars

\* setActive after `await next.onEnable(...)`: line 35
AfterEnable(c) ==
  /\ calls[c].pc = "awEnable"
  /\ cursor' = ToolCursor(calls[c].id)
  /\ calls' = [calls EXCEPT ![c].pc = "afterSetActive"]
  /\ UNCHANGED <<active, storeActiveTool, enabled, evTick, selVars,
                 hasIfc, hoverVars, selection, primarySelection, measVars, cutVars, secVars,
                 engineVars>>
  /\ UNCHANGED sysVars

\* setActiveTool after `await this.tools.setActive(tool)`: lines 631-632
AfterSetActive(c) ==
  /\ calls[c].pc = "afterSetActive"
  /\ cursor' = IF calls[c].id = "cut" THEN GetCutCursor ELSE cursor
  /\ calls' = [calls EXCEPT ![c] = IdleCall]
  /\ UNCHANGED <<active, storeActiveTool, enabled, evTick, selVars,
                 hasIfc, hoverVars, selection, primarySelection, measVars, cutVars, secVars,
                 engineVars>>
  /\ UNCHANGED sysVars

----------------------------------------------------------------------------
(* Event forwarding: ViewerApp.onPointerDown/Move/Up/onKeyDown call the
   ToolManager, which calls the handler of the tool in _active *)

\* ToolManager.onPointerDown/onPointerMove/onPointerUp/onKeyDown: the event
\* goes to the tool in _active
Forward(t) ==
  /\ ~MicroPending
  /\ active = t
  /\ evTick' = 1 - evTick
  /\ UNCHANGED <<active, storeActiveTool, enabled, calls>>

\* SelectTool.onPointerMove, the event pointing at target with the given
\* buttons state (0: none held)
Select_onPointerMove(target, buttons, touch) ==
  /\ Forward("select")
  /\ IF touch
     THEN UNCHANGED <<selVars, hover5>>
     ELSE IF buttons # 0
     THEN /\ selHoverSuspended' = TRUE
          /\ IF ~selHoverSuspended THEN ClearHoverSync ELSE UNCHANGED hover5
          /\ UNCHANGED <<selRaf, selLastMoveEv, selPointerDown>>
     ELSE /\ selHoverSuspended' = FALSE
          /\ selLastMoveEv' = target
          /\ selRaf' = TRUE
          /\ UNCHANGED <<selPointerDown, hover5>>
  /\ UNCHANGED <<cursor, hasIfc, hov, selection, primarySelection, measVars, cutVars, secVars,
                 engineVars>>
  /\ UNCHANGED sysVars

\* the animation-frame callback SelectTool.onPointerMove registered
Select_rafCallback(h) ==
  /\ ~MicroPending
  /\ selRaf
  /\ selRaf' = FALSE
  /\ selLastMoveEv' = NoEv
  /\ IF selLastMoveEv = NoEv
     THEN UNCHANGED hoverVars
     ELSE HoverStart(h, selLastMoveEv)
  /\ UNCHANGED <<toolVars, selPointerDown, selHoverSuspended, hasIfc,
                 selection, primarySelection, measVars, cutVars, secVars, engineVars>>
  /\ UNCHANGED sysVars

\* SelectTool.onPointerDown at (x, y), multi: the shift key is held
Select_onPointerDown(button, x, y, multi) ==
  /\ Forward("select")
  /\ selPointerDown' =
       IF button = 0 THEN [set |-> TRUE, x |-> x, y |-> y, multi |-> multi]
       ELSE selPointerDown
  /\ UNCHANGED <<cursor, selRaf, selLastMoveEv, selHoverSuspended, hasIfc,
                 hoverVars, selection, primarySelection, measVars, cutVars, secVars, engineVars>>
  /\ UNCHANGED sysVars

\* CutTool.onPointerDown at pointer position px
Cut_onPointerDown(button, px) ==
  /\ Forward("cut")
  /\ IF button # 0
     THEN UNCHANGED <<cursor, cutDrag>>
     ELSE /\ cutDragging' = TRUE
          /\ dragStartPx' = px
          /\ dragStartOffset' = cutOffset
          /\ cursor' = "grabbing"
  /\ UNCHANGED <<selVars, hasIfc, hoverVars, selection, primarySelection, measVars, cutStore,
                 cutQueue, disposed, secVars, engineVars>>
  /\ UNCHANGED sysVars

\* CutTool.onPointerUp
Cut_onPointerUp(button) ==
  /\ Forward("cut")
  /\ IF button # 0
     THEN UNCHANGED <<cursor, cutDrag>>
     ELSE /\ cutDragging' = FALSE
          /\ cursor' = GetCutCursor
          /\ UNCHANGED <<dragStartPx, dragStartOffset>>
  /\ UNCHANGED <<selVars, hasIfc, hoverVars, selection, primarySelection, measVars, cutStore,
                 cutQueue, disposed, secVars, engineVars>>
  /\ UNCHANGED sysVars

PrimaryReleased_none(buttons) == buttons = 0
\* (ev.buttons & 1) === 0
PrimaryReleased(buttons) == buttons % 2 = 0

\* what CutTool.onPointerMove does to the tool, the cursor and the cut
PointerMoveEffect(buttons, px) ==
  IF ~cutDragging
  THEN UNCHANGED <<cursor, cutDrag, cutStore, cutQueue>>
  ELSE IF PrimaryReleased(buttons)
  THEN /\ cutDragging' = FALSE
       /\ cursor' = GetCutCursor
       /\ UNCHANGED <<dragStartPx, dragStartOffset, cutStore, cutQueue>>
  ELSE /\ SetCutOffset(dragStartOffset +
                       (IF cutOrientation = "horizontal"
                        THEN 0 - (px - dragStartPx) ELSE px - dragStartPx))
       /\ UNCHANGED <<cursor, cutDrag, cutEnabled, cutOrientation, cutFlip>>

\* CutTool.onPointerMove at pointer position px with the given buttons state
Cut_onPointerMove(buttons, px) ==
  /\ Forward("cut")
  /\ PointerMoveEffect(buttons, px)
  /\ UNCHANGED <<selVars, hasIfc, hoverVars, selection, primarySelection, measVars, disposed,
                 secVars, engineVars>>
  /\ UNCHANGED sysVars

\* CutTool.onKeyDown for the key "v"
Cut_onKeyDown_v ==
  /\ Forward("cut")
  /\ SetCutOrientation(IF cutOrientation = "horizontal" THEN "vertical"
                       ELSE "horizontal")
  /\ UNCHANGED <<selVars, hasIfc, hoverVars, selection, primarySelection, measVars, cutDrag,
                 cutEnabled, cutOffset, cutFlip, disposed, secVars, engineVars>>
  /\ UNCHANGED sysVars

----------------------------------------------------------------------------
(* The state after ViewerApp.init(): the select tool is active *)

InitToolPart ==
  /\ active = "select"
  /\ storeActiveTool = "select"
  /\ cursor = "default"
  /\ enabled = [t \in Registered |-> t = "select"]
  /\ calls = [c \in CallIds |-> IdleCall]
  /\ evTick = 0
  /\ selRaf = FALSE
  /\ selLastMoveEv = NoEv
  /\ selPointerDown = NoDown
  /\ selHoverSuspended = FALSE

InitHoverPart ==
  /\ hoverRequestSerial = 0
  /\ hovered = NoKey
  /\ hasHoverHighlight = FALSE
  /\ hoverClearInFlight = FALSE
  /\ hlHover = {}
  /\ hov = [h \in HoverIds |-> IdleHov]
  /\ selection = {}
  /\ primarySelection = NoKey

InitMeasPart ==
  /\ mStart = NoKey
  /\ mShortestFrom = NoKey
  /\ mPreview = FALSE
  /\ mPreviewVisible = FALSE
  /\ mMoveRaf = FALSE
  /\ mLastMoveEv = NoEv
  /\ moveRequestSerial = 0
  /\ rays = [r \in RayIds |-> IdleRay]
  /\ measurementMode = "point"
  /\ measurements = <<>>
  /\ coordinates = NoKey
  /\ toasts = {}

InitCutPart ==
  /\ cutDragging = FALSE
  /\ dragStartPx = 0
  /\ dragStartOffset = 0
  /\ cutEnabled = FALSE
  /\ cutOrientation = "horizontal"
  /\ cutOffset = 0
  /\ cutFlip = FALSE
  /\ cutApplyQueued = FALSE
  /\ cutApplyRaf = FALSE
  /\ disposed = FALSE
  /\ sectionEnabled = FALSE
  /\ boxEditing = FALSE
  /\ sectionInvert = FALSE

InitVisPart ==
  /\ classVisibility = [c \in ClassIds |-> TRUE]
  /\ storeyVisibility = [s \in StoreyIds |-> TRUE]
  /\ manualHidden = EmptyMap
  /\ cutHidden = EmptyMap
  /\ filteredOut = EmptyMap
  /\ appliedHidden = EmptyMap
  /\ visibilityForceFullApply = TRUE
  /\ isolateActive = FALSE
  /\ hiderHidden = {}
  /\ vis = [o \in VisIds |-> IdleVis]
  /\ cutApplyInFlight = FALSE
  /\ cutIgnoredClasses = {}
  /\ loading = FALSE
  /\ opsStarted = 0

----------------------------------------------------------------------------
(* SectionManager *)

\* rebuildPlanes, lines 298-303: the array activePlanes refers to
ActiveAfterRebuild_anyMode(en, mode) ==
  IF mode = "box" THEN "box" ELSE "plane"

ActiveAfterRebuild(en, mode) ==
  IF ~en THEN "none" ELSE IF mode = "box" THEN "box" ELSE "plane"

\* applyToMaterials, line 309
ClipIntersectionOf_invertOnly(mode, invert) == invert

ClipIntersectionOf(mode, invert) == mode = "box" /\ invert

\* updatePlane with the given invert
UpdatePlane(axis, offset, invert) ==
  smPlane' = [axis |-> axis, offset |-> offset, invert |-> invert]

\* updateBoxPlanes with the given pose and invert
UpdateBoxPlanes(pose, invert) ==
  smBoxPlanes' = [pose |-> pose, invert |-> invert]

\* rebuildPlanes with the fields as the caller has just set them
RebuildPlanes(en, mode, invert, axis, offset) ==
  /\ IF mode = "box"
     THEN UpdateBoxPlanes(smBoxPose, invert) /\ UNCHANGED smPlane
     ELSE UpdatePlane(axis, offset, invert) /\ UNCHANGED smBoxPlanes
  /\ smActive' = ActiveAfterRebuild(en, mode)

\* applyToMaterials over the given material set, with the active array, the
\* mode and the invert as the caller has just set them
ApplyToMaterials(materials, activeRef, mode, invert) ==
  LET planes == IF smArrayLen[activeRef] > 0 THEN activeRef ELSE "null"
  IN /\ matPlanes' = [m \in Mats |->
                        IF m \in materials THEN planes ELSE matPlanes[m]]
     /\ matClipIntersection' =
          [m \in Mats |-> IF m \in materials THEN ClipIntersectionOf(mode, invert)
                          ELSE matClipIntersection[m]]

SM_setEnabled(en) ==
  /\ smEnabled # en
  /\ smEnabled' = en
  /\ RebuildPlanes(en, smMode, smInvert, smPlaneAxis, smPlaneOffset)
  /\ ApplyToMaterials(smMaterials, smActive', smMode, smInvert)
  /\ UNCHANGED <<smMode, smInvert, smArrayLen, smPlaneAxis, smPlaneOffset,
                 smLockRotation, smBoxPose, smBoxRaf, smBoxFrames, smChanges, smMaterials>>
  /\ UNCHANGED notSection

SM_setMode(mode) ==
  /\ smMode # mode
  /\ smMode' = mode
  /\ RebuildPlanes(smEnabled, mode, smInvert, smPlaneAxis, smPlaneOffset)
  /\ ApplyToMaterials(smMaterials, smActive', mode, smInvert)
  /\ UNCHANGED <<smEnabled, smInvert, smArrayLen, smPlaneAxis, smPlaneOffset,
                 smLockRotation, smBoxPose, smBoxRaf, smBoxFrames, smChanges, smMaterials>>
  /\ UNCHANGED notSection

SM_setInvert(invert) ==
  /\ smInvert # invert
  /\ smInvert' = invert
  /\ RebuildPlanes(smEnabled, smMode, invert, smPlaneAxis, smPlaneOffset)
  /\ ApplyToMaterials(smMaterials, smActive', smMode, invert)
  /\ UNCHANGED <<smEnabled, smMode, smArrayLen, smPlaneAxis, smPlaneOffset,
                 smLockRotation, smBoxPose, smBoxRaf, smBoxFrames, smChanges, smMaterials>>
  /\ UNCHANGED notSection

\* setPlaneAxis: updatePlane, then rebuildPlanes (which in box mode
\* recomputes the box planes), then applyToMaterials
SM_setPlaneAxis(axis) ==
  /\ smPlaneAxis # axis
  /\ smPlaneAxis' = axis
  /\ UpdatePlane(axis, smPlaneOffset, smInvert)
  /\ IF smMode = "box"
     THEN UpdateBoxPlanes(smBoxPose, smInvert)
     ELSE UNCHANGED smBoxPlanes
  /\ smActive' = ActiveAfterRebuild(smEnabled, smMode)
  /\ ApplyToMaterials(smMaterials, smActive', smMode, smInvert)
  /\ UNCHANGED <<smEnabled, smMode, smInvert, smArrayLen, smPlaneOffset,
                 smLockRotation, smBoxPose, smBoxRaf, smBoxFrames, smChanges, smMaterials>>
  /\ UNCHANGED notSection

SM_setPlaneOffset(offset) ==
  /\ smPlaneOffset' = offset
  /\ UpdatePlane(smPlaneAxis, offset, smInvert)
  /\ IF smEnabled /\ smMode = "plane"
     THEN /\ smActive' = ActiveAfterRebuild(smEnabled, smMode)
          /\ ApplyToMaterials(smMaterials, smActive', smMode, smInvert)
     ELSE UNCHANGED <<smActive, matPlanes, matClipIntersection>>
  /\ UNCHANGED <<smEnabled, smMode, smInvert, smArrayLen, smPlaneAxis,
                 smLockRotation, smBoxPose, smBoxPlanes, smBoxRaf, smBoxFrames, smChanges, smMaterials>>
  /\ UNCHANGED notSection

\* setLockRotation: locking resets the box rotation (pose 0 stands for the
\* unrotated box)
SM_setLockRotation(locked) ==
  /\ smLockRotation' = locked
  /\ IF locked
     THEN /\ smBoxPose' = 0
          /\ UpdateBoxPlanes(0, smInvert)
          /\ ApplyToMaterials(smMaterials, smActive, smMode, smInvert)
     ELSE UNCHANGED <<smBoxPose, smBoxPlanes, matPlanes, matClipIntersection>>
  /\ UNCHANGED <<smEnabled, smMode, smInvert, smActive, smArrayLen,
                 smPlaneAxis, smPlaneOffset, smPlane, smBoxRaf, smBoxFrames, smChanges, smMaterials>>
  /\ UNCHANGED notSection

SM_resetBoxToBounds(pose) ==
  /\ smBoxPose' = pose
  /\ UpdateBoxPlanes(pose, smInvert)
  /\ ApplyToMaterials(smMaterials, smActive, smMode, smInvert)
  /\ UNCHANGED <<smEnabled, smMode, smInvert, smActive, smArrayLen,
                 smPlaneAxis, smPlaneOffset, smLockRotation, smPlane, smBoxRaf, smBoxFrames, smChanges,
                 smMaterials>>
  /\ UNCHANGED notSection

\* registerMaterialsFrom a root whose meshes carry the given materials
SM_registerMaterialsFrom(root) ==
  /\ smMaterials' = smMaterials \cup root
  /\ ApplyToMaterials(smMaterials', smActive, smMode, smInvert)
  /\ UNCHANGED <<smEnabled, smMode, smInvert, smActive, smArrayLen,
                 smPlaneAxis, smPlaneOffset, smLockRotation, smPlane,
                 smBoxPose, smBoxPlanes, smBoxRaf, smBoxFrames, smChanges>>
  /\ UNCHANGED notSection

SM_clearMaterials ==
  /\ smMaterials' = {}
  /\ UNCHANGED <<smEnabled, smMode, smInvert, smActive, smArrayLen,
                 smPlaneAxis, smPlaneOffset, smLockRotation, smPlane,
                 smBoxPose, smBoxPlanes, smBoxRaf, smBoxFrames, smChanges, matPlanes,
                 matClipIntersection>>
  /\ UNCHANGED notSection

BoxUpdateQueued_never(raf) == FALSE

\* line 364: a callback is scheduled and has not run
BoxUpdateQueued(raf) == raf

\* SectionManager.queueBoxPlaneUpdate
QueueBoxPlaneUpdate ==
  IF BoxUpdateQueued(smBoxRaf)
  THEN UNCHANGED <<smBoxRaf, smBoxFrames>>
  ELSE /\ smBoxRaf' = TRUE
       /\ smBoxFrames' = smBoxFrames + 1

\* the "change" listener of the transform controls: the user has dragged the
\* box to another pose; with clipping off or in plane mode it returns at once
SM_controlsChange(pose) ==
  /\ IF smEnabled /\ smMode = "box"
     THEN /\ smChanges < MaxChanges
          /\ smChanges' = smChanges + 1
          /\ smBoxPose' = IF smLockRotation THEN 0 ELSE pose
          /\ QueueBoxPlaneUpdate
     ELSE /\ smBoxPose' = pose
          /\ UNCHANGED <<smBoxRaf, smBoxFrames, smChanges>>
  /\ UNCHANGED <<smEnabled, smMode, smInvert, smActive, smArrayLen,
                 smPlaneAxis, smPlaneOffset, smLockRotation, smPlane,
                 smBoxPlanes, smMaterials, matPlanes, matClipIntersection>>
  /\ UNCHANGED notSection

\* the animation-frame callback of queueBoxPlaneUpdate
SM_boxPlaneRaf ==
  /\ smBoxFrames > 0
  /\ smBoxFrames' = smBoxFrames - 1
  /\ smChanges' = 0
  /\ smBoxRaf' = FALSE
  /\ UpdateBoxPlanes(smBoxPose, smInvert)
  /\ UNCHANGED <<smEnabled, smMode, smInvert, smActive, smArrayLen,
                 smPlaneAxis, smPlaneOffset, smLockRotation, smPlane,
                 smBoxPose, smMaterials, matPlanes, matClipIntersection>>
  /\ UNCHANGED notSection

\* the fields as declared and the constructor's updateBoxPlanes
InitSectionPart ==
  /\ smEnabled = FALSE
  /\ smMode = "box"
  /\ smInvert = FALSE
  /\ smActive = "none"
  /\ smArrayLen = [a \in {"none", "plane", "box"} |->
                     IF a = "none" THEN 0 ELSE IF a = "plane" THEN 1 ELSE 6]
  /\ smPlaneAxis = "z"
  /\ smPlaneOffset = 0
  /\ smLockRotation = FALSE
  \* line 68: the plane is constructed with the normal (0, 0, -1)
  /\ smPlane = [axis |-> "z", offset |-> 0, invert |-> TRUE]
  /\ smBoxPose = 0
  /\ smBoxPlanes = [pose |-> 0, invert |-> FALSE]
  /\ smBoxRaf = FALSE
  /\ smBoxFrames = 0
  /\ smChanges = 0
  /\ smMaterials = {}
  /\ matPlanes = [m \in Mats |-> "null"]
  /\ matClipIntersection = [m \in Mats |-> FALSE]

\* no load made yet: an empty scene, no fragments model, no GLB root
InitLoadPart ==
  /\ ldCalls = [l \in LdIds |-> IdleLoad]
  /\ ldStarted = 0
  /\ storeLoading = FALSE
  /\ sceneModels = {}
  /\ fragList = {}
  /\ glbRoot = 0
  /\ ldDisposing = {}
  /\ ldDisposeCalls = [m \in LdModels |-> 0]
  /\ ldCaches = {}

\* BvhManager as constructed: no worker yet, not disabled, nothing pending
InitBvhPart ==
  /\ bvhWorker = FALSE
  /\ bvhDisabled = FALSE
  /\ bvhPending = {}
  /\ bvhReq = [r \in BvhIds |-> IdleBvh]
  /\ bvhCreated = 0
  /\ bvhBuilt = {}

\* store.propertyFilter as created, an empty history, no import made
InitFilterPart ==
  /\ pf = [pset |-> <<>>, property |-> <<>>, operator |-> "contains",
           value |-> <<>>, mode |-> "show", active |-> FALSE]
  /\ pfHistory = 0
  /\ pfOutcome = "none"
  /\ pfCall = [kind |-> "none", input |-> <<>>]

\* MeasurementManager as constructed: no items, the group added to the scene
InitMeasurementsPart ==
  /\ mmItems = [i \in {} |-> <<>>]
  /\ mmGroup = {}
  /\ mmInScene = TRUE
  /\ mmDisposals = [i \in MmIds |-> 0]
  /\ mmNextId = 1
  /\ mmGiven = [i \in {} |-> <<>>]
  /\ mmLive = {}
  /\ measurementMeta = [i \in {} |-> "point"]

InitClearPart ==
  /\ hasSelectHighlight = FALSE
  /\ selectClearInFlight = FALSE
  /\ hlSelect = {}
  /\ clearOrphans = [st \in Styles |-> 0]
  /\ clr = [k \in ClrIds |-> IdleClr]
  /\ selCalls = [q \in SelIds |-> IdleSel]

\* the parts of the viewer outside the tools, the hover, the measure tool,
\* the visibility engine and the cut queue, as constructed
\* itemCutSamplesByModel: the centre of each element's box
SampleClass(e) == IF e = 1 THEN "IFCWALL" ELSE "IFCSLAB"
SampleX(e) == IF e = 1 THEN CutMin ELSE 0
SampleZ(e) == IF e = 1 THEN 0 ELSE CutMin

\* the cut samples buildGroupsForModel caches for the loaded model
FixedSamples ==
  [e \in Elems |-> [sampleX |-> SampleX(e), sampleZ |-> SampleZ(e),
                    classId |-> SampleClass(e)]]

\* the store's cut state as created (part_008 lines 3090-3099)
InitialCut ==
  [enabled |-> FALSE, orientation |-> "horizontal", flip |-> FALSE,
   offset |-> 0, ignoredClasses |-> {}]

InitCutSamplesPart ==
  /\ csSamples = FixedSamples
  /\ csCut = InitialCut
  /\ csHidden = EmptyMap
  /\ itemBoxes = Elems

InitSys ==
  /\ InitClearPart
  /\ InitSectionPart
  /\ InitMeasurementsPart
  /\ InitFilterPart
  /\ InitBvhPart
  /\ InitLoadPart
  /\ InitCutSamplesPart

----------------------------------------------------------------------------
(* Tool switching with the events of the select and the cut tool *)

InitTools ==
  /\ InitToolPart
  /\ InitHoverPart
  /\ InitMeasPart
  /\ InitCutPart
  /\ InitSys
  /\ InitVisPart
  /\ hasIfc \in BOOLEAN

NextTools ==
  \/ \E c \in CallIds, t \in ToolIds : SetActiveTool(c, t)
  \/ \E c \in CallIds : AfterDisable(c)
  \/ \E c \in CallIds : AfterEnable(c)
  \/ \E c \in CallIds : AfterSetActive(c)
  \/ \E target \in Targets, buttons \in {0, 1}, touch \in BOOLEAN :
       Select_onPointerMove(target, buttons, touch)
  \/ \E h \in ToolsHoverIds : Select_rafCallback(h)
  \/ \E button \in {0, 2} : Select_onPointerDown(button, 0, 0, FALSE)
  \/ \E h \in ToolsHoverIds : HoverRaycastResolves(h)
  \/ \E h \in ToolsHoverIds : HoverClearReturns(h)
  \/ \E h \in ToolsHoverIds : HoverHighlightDone(h)
  \/ HoverClearSettles
  \/ PointerLeave

SpecTools == InitTools /\ [][NextTools]_vars

\* the states of ev.buttons: none, primary, secondary, both
ButtonStates == {0, 1, 2, 3}

\* dragging the cut plane, with switches between the tools
NextCutDrag ==
  \/ \E c \in CallIds, t \in {"select", "cut"} : SetActiveTool(c, t)
  \/ \E c \in CallIds : AfterDisable(c)
  \/ \E c \in CallIds : AfterEnable(c)
  \/ \E c \in CallIds : AfterSetActive(c)
  \/ \E button \in {0, 2}, px \in Px : Cut_onPointerDown(button, px)
  \/ \E button \in {0, 2} : Cut_onPointerUp(button)
  \/ \E buttons \in ButtonStates, px \in Px : Cut_onPointerMove(buttons, px)
  \/ Cut_onKeyDown_v

SpecCutDrag == InitTools /\ [][NextCutDrag]_vars

----------------------------------------------------------------------------
(* MeasureTool: pointer events, the preview and the two-click measurement *)

MeasureModes == {"point", "laser", "shortest", "coords"}

\* MeasureTool.setPreviewVisible: only existing preview objects are touched
SetPreviewVisible(objects, v) == IF objects THEN v ELSE mPreviewVisible

\* ViewerApp.setMeasurementMode
SetMeasurementMode(m) ==
  /\ ~MicroPending
  /\ measurementMode' = m
  /\ UNCHANGED <<toolVars, selVars, hasIfc, hoverVars, selection, primarySelection, measTool,
                 rays, measurements, coordinates, toasts, cutVars, secVars, engineVars>>
  /\ UNCHANGED sysVars

\* MeasureTool.onPointerMove
Measure_onPointerMove(target, touchDrag) ==
  /\ Forward("measure")
  /\ IF touchDrag
     THEN UNCHANGED <<mLastMoveEv, mMoveRaf>>
     ELSE /\ mLastMoveEv' = target
          /\ mMoveRaf' = TRUE
  /\ UNCHANGED <<cursor, selVars, hasIfc, hoverVars, selection, primarySelection, mStart,
                 mShortestFrom, mPreview, mPreviewVisible, moveRequestSerial,
                 rays, measStore, cutVars, secVars, engineVars>>
  /\ UNCHANGED sysVars

\* whether updatePreview goes on to its hit-test (line 114)
PreviewWanted == mStart # NoKey /\ measurementMode \in {"point", "laser"}

\* the animation-frame callback of MeasureTool.onPointerMove, with
\* updatePreview up to its await
Measure_rafCallback(r) ==
  /\ ~MicroPending
  /\ mMoveRaf
  /\ mMoveRaf' = FALSE
  /\ mLastMoveEv' = NoEv
  /\ IF mLastMoveEv = NoEv \/ ~PreviewWanted
     THEN UNCHANGED <<moveRequestSerial, rays>>
     ELSE /\ FirstIdle(rays, r)
          /\ moveRequestSerial < MaxMoveSerial
          /\ moveRequestSerial' = moveRequestSerial + 1
          /\ rays' = [rays EXCEPT ![r] =
                        [pc |-> IF hasIfc THEN "preview" ELSE "previewMicro",
                         mode |-> measurementMode,
                         requestId |-> moveRequestSerial + 1,
                         target |-> mLastMoveEv, start |-> mStart]]
  /\ UNCHANGED <<toolVars, selVars, hasIfc, hoverVars, selection, primarySelection, mStart,
                 mShortestFrom, mPreview, mPreviewVisible, measStore, cutVars,
                 secVars, engineVars>>
  /\ UNCHANGED sysVars

\* whether updatePreview may go on after its await (lines 118-119)
PreviewCurrent(requestId) == requestId = moveRequestSerial /\ mStart # NoKey

\* the hit-test of updatePreview resolves: lines 118-136
Measure_previewResolves(r) ==
  /\ \/ rays[r].pc = "preview" /\ ~MicroPending
     \/ rays[r].pc = "previewMicro"
  /\ rays' = [rays EXCEPT ![r] = IdleRay]
  /\ IF ~PreviewCurrent(rays[r].requestId)
     THEN UNCHANGED <<mPreview, mPreviewVisible>>
     ELSE IF RaycastHit(rays[r].target) = NoKey
     THEN /\ mPreviewVisible' = SetPreviewVisible(mPreview, FALSE)
          /\ UNCHANGED mPreview
     ELSE /\ mPreview' = TRUE
          /\ mPreviewVisible' = TRUE
  /\ UNCHANGED <<toolVars, selVars, hasIfc, hoverVars, selection, primarySelection, mStart,
                 mShortestFrom, mMoveRaf, mLastMoveEv, moveRequestSerial,
                 measStore, cutVars, secVars, engineVars>>
  /\ UNCHANGED sysVars

\* MeasureTool.onPointerDown up to its hit-test await
Measure_onPointerDown(r, button, target) ==
  /\ Forward("measure")
  /\ IF button # 0
     THEN UNCHANGED rays
     ELSE /\ FirstIdle(rays, r)
          /\ rays' = [rays EXCEPT ![r] =
                        [pc |-> IF hasIfc THEN "down" ELSE "downMicro",
                         mode |-> measurementMode, requestId |-> 0,
                         target |-> target, start |-> NoKey]]
  /\ UNCHANGED <<cursor, selVars, hasIfc, hoverVars, selection, primarySelection, measTool,
                 measStore, cutVars, secVars, engineVars>>
  /\ UNCHANGED sysVars

AddDistanceMeasurement_none(start, end, mode) ==
  measurements' = measurements

\* ViewerApp.addDistanceMeasurement
AddDistanceMeasurement(start, end, mode) ==
  measurements' = Append(measurements,
                         [start |-> start, end |-> end, mode |-> mode])

BoundsMissing_never(boxes, a, b) == FALSE

\* line 2223: itemBoxesByModel holds no box for one of the two elements
BoundsMissing(boxes, a, b) == a \notin boxes \/ b \notin boxes

\* ViewerApp.measureShortestDistanceBetween; toasts holds the titles of
\* the error notifications shown
MeasureShortestDistanceBetween(a, b) ==
  IF BoundsMissing(itemBoxes, a, b)
  THEN /\ toasts' = toasts \cup {"Shortest distance unavailable"}
       /\ UNCHANGED measurements
  ELSE /\ Len(measurements) < MaxMeasurements
       /\ AddDistanceMeasurement(a, b, "shortest")
       /\ UNCHANGED toasts

\* the hit-test of MeasureTool.onPointerDown resolves: lines 69-108
Measure_downResolves(r) ==
  /\ \/ rays[r].pc = "down" /\ ~MicroPending
     \/ rays[r].pc = "downMicro"
  /\ LET hit == RaycastHit(rays[r].target)
         mode == rays[r].mode
     IN IF hit = NoKey
        THEN /\ rays' = [rays EXCEPT ![r] = IdleRay]
             /\ UNCHANGED <<mStart, mShortestFrom, mPreview, mPreviewVisible,
                            moveRequestSerial, measurements, coordinates, toasts>>
        ELSE IF mode = "coords"
        THEN /\ coordinates' = hit
             /\ rays' = [rays EXCEPT ![r] = IdleRay]
             /\ UNCHANGED <<mStart, mShortestFrom, mPreview, mPreviewVisible,
                            moveRequestSerial, measurements, toasts>>
        ELSE IF mode = "shortest"
        THEN IF mShortestFrom = NoKey
             THEN /\ mShortestFrom' = hit
                  /\ rays' = [rays EXCEPT ![r] = IdleRay]
                  /\ UNCHANGED <<mStart, mPreview, mPreviewVisible,
                                 moveRequestSerial, measurements, coordinates, toasts>>
             ELSE /\ MeasureShortestDistanceBetween(mShortestFrom, hit)
                  /\ rays' = [rays EXCEPT ![r].pc = "shortestRet"]
                  /\ UNCHANGED <<mStart, mShortestFrom, mPreview,
                                 mPreviewVisible, moveRequestSerial, coordinates>>
        ELSE IF mStart = NoKey
        THEN /\ moveRequestSerial < MaxMoveSerial
             /\ mStart' = hit
             /\ moveRequestSerial' = moveRequestSerial + 1
             /\ mPreview' = TRUE
             /\ mPreviewVisible' = TRUE
             /\ rays' = [rays EXCEPT ![r] = IdleRay]
             /\ UNCHANGED <<mShortestFrom, measurements, coordinates, toasts>>
        ELSE /\ moveRequestSerial < MaxMoveSerial
             /\ Len(measurements) < MaxMeasurements
             /\ AddDistanceMeasurement(mStart, hit, mode)
             /\ mStart' = NoKey
             /\ moveRequestSerial' = moveRequestSerial + 1
             /\ mPreviewVisible' = SetPreviewVisible(mPreview, FALSE)
             /\ rays' = [rays EXCEPT ![r] = IdleRay]
             /\ UNCHANGED <<mShortestFrom, mPreview, coordinates, toasts>>
  /\ UNCHANGED <<toolVars, selVars, hasIfc, hoverVars, selection, primarySelection, mMoveRaf,
                 mLastMoveEv, measurementMode, cutVars, secVars, engineVars>>
  /\ UNCHANGED sysVars

\* onPointerDown after `await app.measureShortestDistanceBetween(...)`
Measure_shortestReturns(r) ==
  /\ rays[r].pc = "shortestRet"
  /\ mShortestFrom' = NoKey
  /\ rays' = [rays EXCEPT ![r] = IdleRay]
  /\ UNCHANGED <<toolVars, selVars, hasIfc, hoverVars, selection, primarySelection, mStart,
                 mPreview, mPreviewVisible, mMoveRaf, mLastMoveEv,
                 moveRequestSerial, measStore, cutVars, secVars, engineVars>>
  /\ UNCHANGED sysVars

\* the tools the measuring scenario switches between
MeasureToolIds == {"select", "measure"}

InitMeasure ==
  /\ InitToolPart
  /\ InitHoverPart
  /\ InitMeasPart
  /\ InitCutPart
  /\ InitSys
  /\ InitVisPart
  /\ hasIfc \in BOOLEAN

NextMeasure ==
  \/ \E c \in CallIds, t \in MeasureToolIds : SetActiveTool(c, t)
  \/ \E c \in CallIds : AfterDisable(c)
  \/ \E c \in CallIds : AfterEnable(c)
  \/ \E c \in CallIds : AfterSetActive(c)
  \/ \E m \in MeasureModes : SetMeasurementMode(m)
  \/ \E target \in Targets, touchDrag \in BOOLEAN :
       Measure_onPointerMove(target, touchDrag)
  \/ \E r \in RayIds : Measure_rafCallback(r)
  \/ \E r \in RayIds : Measure_previewResolves(r)
  \/ \E r \in RayIds, button \in {0, 2}, target \in Targets :
       Measure_onPointerDown(r, button, target)
  \/ \E r \in RayIds : Measure_downResolves(r)
  \/ \E r \in RayIds : Measure_shortestReturns(r)

SpecMeasure == InitMeasure /\ [][NextMeasure]_vars

----------------------------------------------------------------------------
(* Picking pairs of elements with the measure tool *)

\* setActiveTool("measure") has returned on a loaded IFC model; which
\* elements buildGroupsForModel found a box for is the model's matter
InitShortest ==
  /\ active = "measure"
  /\ storeActiveTool = "measure"
  /\ cursor = ToolCursor("measure")
  /\ enabled = [t \in Registered |-> t = "measure"]
  /\ calls = [c \in CallIds |-> IdleCall]
  /\ evTick = 0
  /\ selRaf = FALSE
  /\ selLastMoveEv = NoEv
  /\ selPointerDown = NoDown
  /\ selHoverSuspended = FALSE
  /\ hoverRequestSerial = 2
  /\ hovered = NoKey
  /\ hasHoverHighlight = FALSE
  /\ hoverClearInFlight = FALSE
  /\ hlHover = {}
  /\ hov = [h \in HoverIds |-> IdleHov]
  /\ selection = {}
  /\ primarySelection = NoKey
  /\ mStart = NoKey
  /\ mShortestFrom = NoKey
  /\ mPreview = TRUE
  /\ mPreviewVisible = FALSE
  /\ mMoveRaf = FALSE
  /\ mLastMoveEv = NoEv
  /\ moveRequestSerial = 1
  /\ rays = [r \in RayIds |-> IdleRay]
  /\ measurementMode = "point"
  /\ measurements = <<>>
  /\ coordinates = NoKey
  /\ toasts = {}
  /\ InitCutPart
  /\ InitVisPart
  /\ InitClearPart
  /\ InitSectionPart
  /\ InitMeasurementsPart
  /\ InitFilterPart
  /\ InitBvhPart
  /\ InitLoadPart
  /\ csSamples = FixedSamples
  /\ csCut = InitialCut
  /\ csHidden = EmptyMap
  /\ itemBoxes \in SUBSET Elems
  /\ hasIfc = TRUE

NextShortest ==
  \/ \E m \in MeasureModes : SetMeasurementMode(m)
  \/ \E r \in RayIds, button \in {0, 2}, target \in Targets :
       Measure_onPointerDown(r, button, target)
  \/ \E r \in RayIds : Measure_downResolves(r)
  \/ \E r \in RayIds : Measure_shortestReturns(r)

SpecShortest == InitShortest /\ [][NextShortest]_vars

\* C5: while the measure tool is disabled its pending start point and its
\* pending first pick of a shortest distance are null and its preview
\* objects are not in the scene
C5_TransientDiscarded ==
  ~enabled["measure"] =>
     /\ mStart = NoKey
     /\ mShortestFrom = NoKey
     /\ ~mPreview

----------------------------------------------------------------------------
(* ModelIdMap: a record from model ids to sets of local ids *)

\* the local ids a ModelIdMap names, of whatever model
Flat(map) == UNION {map[k] : k \in DOMAIN map}

\* addToMap(target, source): the value of target afterwards
addToMap(target, source) ==
  [k \in DOMAIN target \cup DOMAIN source |->
     (IF k \in DOMAIN target THEN target[k] ELSE {}) \cup
     (IF k \in DOMAIN source THEN source[k] ELSE {})]

cloneModelIdMap(source) == [k \in DOMAIN source |-> source[k]]

subtractModelIdMap_keepsAll(a, b) == a

\* subtractModelIdMap(a, b): per model the ids of a that b lacks, a model
\* with nothing left being dropped
subtractModelIdMap(a, b) ==
  LET diff(k) == IF k \notin DOMAIN b THEN a[k] ELSE a[k] \ b[k]
  IN [k \in {m \in DOMAIN a : diff(m) # {}} |-> diff(k)]

isEmptyMap(map) == \A k \in DOMAIN map : map[k] = {}

\* rawToModelIdMap(store.selection); the store keeps no empty entry
rawToModelIdMap(sel) == IF sel = {} THEN EmptyMap ELSE [k \in ModelIds |-> sel]

----------------------------------------------------------------------------
(* The loaded model: its groups and its cut samples (buildGroupsForModel) *)

ClassOrder == <<"IFCWALL", "IFCSLAB">>
StoreyOrder == <<"s1">>

\* classGroupItems: element 1 is a wall, element 2 a slab
ClassGroupItems(id) ==
  IF id = "IFCWALL" THEN [k \in ModelIds |-> {1}]
  ELSE [k \in ModelIds |-> Elems \ {1}]

\* storeyGroupItems: every element is on the one storey
StoreyGroupItems(id) == [k \in ModelIds |-> Elems]

\* the groups and samples exist once buildGroupsForModel has run
GroupsBuilt == hasIfc /\ ~loading

RECURSIVE AddHiddenGroups(_, _, _, _, _)
\* the loops of applyVisibilityFromState over classGroupItems and
\* storeyGroupItems: the groups whose visibility is false are added
AddHiddenGroups(target, order, visible, kind, i) ==
  IF i > Len(order) THEN target
  ELSE AddHiddenGroups(
         IF visible[order[i]] = FALSE
         THEN addToMap(target, IF kind = "class" THEN ClassGroupItems(order[i])
                               ELSE StoreyGroupItems(order[i]))
         ELSE target,
         order, visible, kind, i + 1)

\* nextHide of applyVisibilityFromState: the union of the five sources
NextHideOf(cv, sv, mh, ch, fo) ==
  addToMap(addToMap(addToMap(
    AddHiddenGroups(AddHiddenGroups(EmptyMap,
                                    IF GroupsBuilt THEN ClassOrder ELSE <<>>,
                                    cv, "class", 1),
                    IF GroupsBuilt THEN StoreyOrder ELSE <<>>, sv, "storey", 1),
    mh), ch), fo)

shouldHide_orEqual(flip, axisValue, offset) ==
  IF flip THEN axisValue >= offset ELSE axisValue <= offset

\* line 2581: strictly above the offset when flipped, strictly below otherwise
shouldHide(flip, axisValue, offset) ==
  IF flip THEN axisValue > offset ELSE axisValue < offset

\* the hidden map applyCutFromState computes over the samples of the one
\* model (lines 2559-2600); classId "none" is a sample without a class
CutHiddenFor(samples, en, orientation, flip, offset, ignored) ==
  LET axisValue(e) == IF orientation = "horizontal" THEN samples[e].sampleZ
                      ELSE samples[e].sampleX
      skipped(e) == samples[e].classId # "none" /\ samples[e].classId \in ignored
      target == {e \in DOMAIN samples :
                   ~skipped(e) /\ shouldHide(flip, axisValue(e), offset)}
  IN IF ~en \/ target = {} THEN EmptyMap ELSE [k \in ModelIds |-> target]

\* the hidden map applyCutFromState computes (lines 2565-2598)
CutHiddenOf(en, orientation, flip, offset, ignored) ==
  CutHiddenFor(IF GroupsBuilt THEN FixedSamples ELSE [e \in {} |-> 0],
               en, orientation, flip, offset, ignored)

----------------------------------------------------------------------------
(* applyVisibilityFromState *)

\* operation o starts in the first free slot
StartOp(o) ==
  /\ FirstIdle(vis, o)
  /\ opsStarted < MaxOps
  /\ opsStarted' = opsStarted + 1

\* applyVisibilityFromState run by operation o for the given caller, from
\* its first line to its first await or its return, reading the sources as
\* the caller left them
ApplyVisibilityFromState(o, caller, cv, sv, mh, ch, fo, iso) ==
  LET nextHide == NextHideOf(cv, sv, mh, ch, fo)
      toHide == subtractModelIdMap(nextHide, appliedHidden)
      toShow == subtractModelIdMap(appliedHidden, nextHide)
      op(pc) == [pc |-> pc, caller |-> caller, nextHide |-> nextHide,
                 toShow |-> toShow, toHide |-> toHide, hidden |-> EmptyMap]
  IN IF iso
     THEN /\ vis' = [vis EXCEPT ![o] = op("ret")]
          /\ UNCHANGED <<appliedHidden, visibilityForceFullApply>>
     ELSE IF ~hasIfc
     THEN /\ appliedHidden' = cloneModelIdMap(nextHide)
          /\ visibilityForceFullApply' = FALSE
          /\ vis' = [vis EXCEPT ![o] = op("ret")]
     ELSE IF visibilityForceFullApply
     THEN /\ vis' = [vis EXCEPT ![o] = op("ffShowAll")]
          /\ UNCHANGED <<appliedHidden, visibilityForceFullApply>>
     ELSE IF ~isEmptyMap(toShow)
     THEN /\ vis' = [vis EXCEPT ![o] = op("incShow")]
          /\ UNCHANGED <<appliedHidden, visibilityForceFullApply>>
     ELSE IF ~isEmptyMap(toHide)
     THEN /\ vis' = [vis EXCEPT ![o] = op("incHide")]
          /\ UNCHANGED <<appliedHidden, visibilityForceFullApply>>
     ELSE /\ appliedHidden' = cloneModelIdMap(nextHide)
          /\ vis' = [vis EXCEPT ![o] = op("ret")]
          /\ UNCHANGED visibilityForceFullApply

\* pcs at which an operation awaits a hider.set of applyVisibilityFromState
ApplyPcs == {"ffShowAll", "ffHide", "incShow", "incHide"}

\* the hider.set call operation o awaits settles, and applyVisibilityFromState
\* goes on to its next await or to its end
HiderSetSettles(o) ==
  /\ ~MicroPending
  /\ vis[o].pc \in ApplyPcs
  /\ LET op == vis[o]
         last == \/ op.pc \in {"ffHide", "incHide"}
                 \/ op.pc = "ffShowAll" /\ isEmptyMap(op.nextHide)
                 \/ op.pc = "incShow" /\ isEmptyMap(op.toHide)
     IN /\ hiderHidden' =
             CASE op.pc = "ffShowAll" -> {}
               [] op.pc = "ffHide" -> hiderHidden \cup Flat(op.nextHide)
               [] op.pc = "incShow" -> hiderHidden \ Flat(op.toShow)
               [] op.pc = "incHide" -> hiderHidden \cup Flat(op.toHide)
        /\ IF last
           THEN /\ appliedHidden' = cloneModelIdMap(op.nextHide)
                /\ visibilityForceFullApply' =
                     IF op.pc \in {"ffShowAll", "ffHide"} THEN FALSE
                     ELSE visibilityForceFullApply
                /\ vis' = [vis EXCEPT ![o].pc = "ret"]
           ELSE /\ vis' = [vis EXCEPT ![o].pc =
                             IF op.pc = "ffShowAll" THEN "ffHide" ELSE "incHide"]
                /\ UNCHANGED <<appliedHidden, visibilityForceFullApply>>
  /\ UNCHANGED <<toolVars, selVars, hasIfc, hoverVars, selection, primarySelection, measVars,
                 cutVars, secVars, classVisibility, storeyVisibility,
                 manualHidden, cutHidden, filteredOut, isolateActive,
                 cutApplyInFlight, cutIgnoredClasses, loading, opsStarted>>
  /\ UNCHANGED sysVars

----------------------------------------------------------------------------
(* The callers of applyVisibilityFromState *)

\* the sources as they stand, given to applyVisibilityFromState
ApplyFromState(o, caller) ==
  ApplyVisibilityFromState(o, caller, classVisibility, storeyVisibility,
                           manualHidden, cutHidden, filteredOut, isolateActive)

\* ViewerApp.setClassVisible
SetClassVisible(o, id, visible) ==
  /\ ~MicroPending
  /\ StartOp(o)
  /\ classVisibility' = [classVisibility EXCEPT ![id] = visible]
  /\ ApplyVisibilityFromState(o, "class", classVisibility', storeyVisibility,
                              manualHidden, cutHidden, filteredOut, isolateActive)
  /\ UNCHANGED <<uiVars, hasIfc, selection, primarySelection, cutStore, cutQueue, disposed,
                 storeyVisibility, manualHidden, cutHidden, filteredOut,
                 isolateActive, hiderHidden, cutApplyInFlight,
                 cutIgnoredClasses, loading>>
  /\ UNCHANGED sysVars

\* ViewerApp.setStoreyVisible
SetStoreyVisible(o, id, visible) ==
  /\ ~MicroPending
  /\ StartOp(o)
  /\ storeyVisibility' = [storeyVisibility EXCEPT ![id] = visible]
  /\ ApplyVisibilityFromState(o, "storey", classVisibility, storeyVisibility',
                              manualHidden, cutHidden, filteredOut, isolateActive)
  /\ UNCHANGED <<uiVars, hasIfc, selection, primarySelection, cutStore, cutQueue, disposed,
                 classVisibility, manualHidden, cutHidden, filteredOut,
                 isolateActive, hiderHidden, cutApplyInFlight,
                 cutIgnoredClasses, loading>>
  /\ UNCHANGED sysVars

\* ViewerApp.hideSelected up to its await of applyVisibilityFromState; an
\* empty selection returns at once
HideSelected(o) ==
  /\ ~MicroPending
  /\ StartOp(o)
  /\ IF isEmptyMap(rawToModelIdMap(selection))
     THEN UNCHANGED <<manualHidden, vis, appliedHidden, visibilityForceFullApply>>
     ELSE /\ manualHidden' = addToMap(manualHidden, rawToModelIdMap(selection))
          /\ ApplyVisibilityFromState(o, "hide", classVisibility,
                                      storeyVisibility, manualHidden', cutHidden,
                                      filteredOut, isolateActive)
  /\ UNCHANGED <<uiVars, hasIfc, selection, primarySelection, cutStore, cutQueue, disposed,
                 classVisibility, storeyVisibility, cutHidden, filteredOut,
                 isolateActive, hiderHidden, cutApplyInFlight,
                 cutIgnoredClasses, loading>>
  /\ UNCHANGED sysVars

\* ViewerApp.isolateSelected up to its first await: with no isolation
\* active the hider is asked for its visibility map, otherwise
\* restoreIsolation runs
IsolateSelected(o) ==
  /\ ~MicroPending
  /\ StartOp(o)
  /\ IF isEmptyMap(rawToModelIdMap(selection)) \/ ~hasIfc
     THEN UNCHANGED <<vis, appliedHidden, visibilityForceFullApply, isolateActive>>
     ELSE IF ~isolateActive
     THEN /\ vis' = [vis EXCEPT ![o] =
                       [IdleVis EXCEPT !.pc = "isoGet", !.caller = "isolate",
                                       !.toShow = rawToModelIdMap(selection)]]
          /\ UNCHANGED <<appliedHidden, visibilityForceFullApply, isolateActive>>
     ELSE /\ isolateActive' = FALSE
          /\ ApplyVisibilityFromState(o, "restore", classVisibility,
                                      storeyVisibility, manualHidden, cutHidden,
                                      filteredOut, FALSE)
  /\ UNCHANGED <<uiVars, hasIfc, selection, primarySelection, cutStore, cutQueue, disposed,
                 classVisibility, storeyVisibility, manualHidden, cutHidden,
                 filteredOut, hiderHidden, cutApplyInFlight, cutIgnoredClasses,
                 loading>>
  /\ UNCHANGED sysVars

\* hider.getVisibilityMap, then hider.isolate(map) settle: lines 2060-2063
IsolateSettles(o) ==
  /\ ~MicroPending
  /\ vis[o].pc \in {"isoGet", "isoIsolate"}
  /\ IF vis[o].pc = "isoGet"
     THEN /\ vis' = [vis EXCEPT ![o].pc = "isoIsolate"]
          /\ UNCHANGED <<hiderHidden, visibilityForceFullApply, isolateActive>>
     ELSE /\ hiderHidden' = Elems \ Flat(vis[o].toShow)
          /\ visibilityForceFullApply' = TRUE
          /\ isolateActive' = TRUE
          /\ vis' = [vis EXCEPT ![o] = IdleVis]
  /\ UNCHANGED <<uiVars, hasIfc, selection, primarySelection, cutStore, cutQueue, disposed,
                 classVisibility, storeyVisibility, manualHidden, cutHidden,
                 filteredOut, appliedHidden, cutApplyInFlight,
                 cutIgnoredClasses, loading, opsStarted>>
  /\ UNCHANGED sysVars

UnhideAllResets_keepsCut ==
  /\ manualHidden' = EmptyMap
  /\ appliedHidden' = EmptyMap
  /\ visibilityForceFullApply' = FALSE
  /\ isolateActive' = FALSE
  /\ classVisibility' = [c \in ClassIds |-> TRUE]
  /\ storeyVisibility' = [st \in StoreyIds |-> TRUE]
  /\ filteredOut' = EmptyMap
  /\ UNCHANGED cutHidden

\* the assignments of unhideAll after its hider.set(true): lines 2101-2108
UnhideAllResets ==
  /\ manualHidden' = EmptyMap
  /\ appliedHidden' = EmptyMap
  /\ visibilityForceFullApply' = FALSE
  /\ isolateActive' = FALSE
  /\ classVisibility' = [c \in ClassIds |-> TRUE]
  /\ storeyVisibility' = [st \in StoreyIds |-> TRUE]
  /\ cutHidden' = EmptyMap
  /\ filteredOut' = EmptyMap

\* ViewerApp.unhideAll up to its await of hider.set(true)
UnhideAll(o) ==
  /\ ~MicroPending
  /\ StartOp(o)
  /\ IF hasIfc
     THEN /\ vis' = [vis EXCEPT ![o] =
                       [IdleVis EXCEPT !.pc = "unhide", !.caller = "unhide"]]
          /\ UNCHANGED visVars
     ELSE /\ UnhideAllResets
          /\ UNCHANGED <<vis, hiderHidden>>
  /\ UNCHANGED <<uiVars, hasIfc, selection, primarySelection, cutStore, cutQueue, disposed,
                 cutApplyInFlight, cutIgnoredClasses, loading>>
  /\ UNCHANGED sysVars

\* the hider.set(true) of unhideAll settles
UnhideAllSettles(o) ==
  /\ ~MicroPending
  /\ vis[o].pc = "unhide"
  /\ hiderHidden' = {}
  /\ UnhideAllResets
  /\ vis' = [vis EXCEPT ![o] = IdleVis]
  /\ UNCHANGED <<uiVars, hasIfc, selection, primarySelection, cutStore, cutQueue, disposed,
                 cutApplyInFlight, cutIgnoredClasses, loading, opsStarted>>
  /\ UNCHANGED sysVars

\* applyPropertyFilterFromState from the end of its reads (line 2440) to
\* its await of applyVisibilityFromState; matched are the elements the
\* rule matches, and only mode "show" filters elements out
ApplyPropertyFilter(o, matched, mode) ==
  /\ ~MicroPending
  /\ StartOp(o)
  /\ filteredOut' = IF mode = "show" /\ hasIfc
                    THEN [k \in ModelIds |-> Elems \ matched]
                    ELSE EmptyMap
  /\ ApplyVisibilityFromState(o, "filter", classVisibility, storeyVisibility,
                              manualHidden, cutHidden, filteredOut',
                              isolateActive)
  /\ UNCHANGED <<uiVars, hasIfc, selection, primarySelection, cutStore, cutQueue, disposed,
                 classVisibility, storeyVisibility, manualHidden, cutHidden,
                 isolateActive, hiderHidden, cutApplyInFlight,
                 cutIgnoredClasses, loading>>
  /\ UNCHANGED sysVars

\* ViewerApp.clearPropertyFilter up to its await of resetColor
ClearPropertyFilter(o) ==
  /\ ~MicroPending
  /\ StartOp(o)
  /\ filteredOut' = EmptyMap
  /\ IF hasIfc
     THEN /\ vis' = [vis EXCEPT ![o] =
                       [IdleVis EXCEPT !.pc = "resetColor", !.caller = "clear"]]
          /\ UNCHANGED <<appliedHidden, visibilityForceFullApply>>
     ELSE ApplyVisibilityFromState(o, "clear", classVisibility,
                                   storeyVisibility, manualHidden, cutHidden,
                                   EmptyMap, isolateActive)
  /\ UNCHANGED <<uiVars, hasIfc, selection, primarySelection, cutStore, cutQueue, disposed,
                 classVisibility, storeyVisibility, manualHidden, cutHidden,
                 isolateActive, hiderHidden, cutApplyInFlight,
                 cutIgnoredClasses, loading>>
  /\ UNCHANGED sysVars

\* the resetColor of clearPropertyFilter settles: line 2473
ResetColorSettles(o) ==
  /\ ~MicroPending
  /\ vis[o].pc = "resetColor"
  /\ ApplyFromState(o, "clear")
  /\ UNCHANGED <<uiVars, hasIfc, selection, primarySelection, cutStore, cutQueue, disposed,
                 classVisibility, storeyVisibility, manualHidden, cutHidden,
                 filteredOut, isolateActive, hiderHidden, cutApplyInFlight,
                 cutIgnoredClasses, loading, opsStarted>>
  /\ UNCHANGED sysVars

\* callers that do nothing to the state after applyVisibilityFromState
PlainCallers == {"class", "storey", "restore", "filter", "clear"}

\* applyVisibilityFromState has returned to a caller of the user interface;
\* hideSelected goes on to clearSelection
ReturnToCaller(o) ==
  /\ vis[o].pc = "ret"
  /\ vis[o].caller \in PlainCallers \cup {"hide"}
  /\ selection' = IF vis[o].caller = "hide" THEN {} ELSE selection
  /\ primarySelection' =
       IF vis[o].caller = "hide" THEN NoKey ELSE primarySelection
  /\ vis' = [vis EXCEPT ![o] = IdleVis]
  /\ UNCHANGED <<uiVars, hasIfc, cutStore, cutQueue, disposed, visVars,
                 cutApplyInFlight, cutIgnoredClasses, loading, opsStarted>>
  /\ UNCHANGED sysVars

----------------------------------------------------------------------------
(* The cut queue: queueApplyCut, flushCutQueue, applyCutFromState *)

\* a run of applyCutFromState is in progress in operation o
CutCallers == {"cutQueue", "cutLoad"}

\* applyCutFromState from its first line to its await of
\* applyVisibilityFromState or, when the loop over the samples yields to
\* the main thread (line 2587), to that yield, with the map it is building
\* from the cut state read at line 2552; no GLB model is loaded
ApplyCutFromState(o, caller) ==
  LET hidden == CutHiddenOf(cutEnabled, cutOrientation, cutFlip, cutOffset,
                            cutIgnoredClasses)
  IN \/ /\ cutHidden' = hidden
        /\ ApplyVisibilityFromState(o, caller, classVisibility,
                                    storeyVisibility, manualHidden, cutHidden',
                                    filteredOut, isolateActive)
     \/ /\ cutEnabled /\ GroupsBuilt
        /\ vis' = [vis EXCEPT ![o] =
                     [IdleVis EXCEPT !.pc = "cutYield", !.caller = caller,
                                     !.hidden = hidden]]
        /\ UNCHANGED <<cutHidden, appliedHidden, visibilityForceFullApply>>

\* yieldToMainThread settles: the loop ends, line 2600 assigns the map and
\* applyVisibilityFromState is awaited
CutYieldReturns(o) ==
  /\ ~MicroPending
  /\ vis[o].pc = "cutYield"
  /\ cutHidden' = vis[o].hidden
  /\ ApplyVisibilityFromState(o, vis[o].caller, classVisibility,
                              storeyVisibility, manualHidden, cutHidden',
                              filteredOut, isolateActive)
  /\ UNCHANGED <<uiVars, hasIfc, selection, primarySelection, cutStore, cutQueue, disposed,
                 classVisibility, storeyVisibility, manualHidden, filteredOut,
                 isolateActive, hiderHidden, cutApplyInFlight,
                 cutIgnoredClasses, loading, opsStarted>>
  /\ UNCHANGED sysVars

\* the loop of flushCutQueue: one more run while a request is queued
FlushLoop(o) ==
  IF cutApplyQueued /\ ~disposed
  THEN /\ cutApplyQueued' = FALSE
       /\ cutApplyInFlight' = TRUE
       /\ ApplyCutFromState(o, "cutQueue")
  ELSE /\ cutApplyInFlight' = FALSE
       /\ vis' = [vis EXCEPT ![o] = IdleVis]
       /\ UNCHANGED <<cutApplyQueued, cutHidden, appliedHidden,
                      visibilityForceFullApply>>

\* the animation-frame callback of queueApplyCut: flushCutQueue starts
CutRafCallback(o) ==
  /\ ~MicroPending
  /\ cutApplyRaf
  /\ cutApplyRaf' = FALSE
  /\ IF cutApplyInFlight \/ disposed
     THEN UNCHANGED <<cutApplyQueued, cutApplyInFlight, vis, cutHidden,
                      appliedHidden, visibilityForceFullApply, opsStarted>>
     ELSE /\ StartOp(o)
          /\ FlushLoop(o)
  /\ UNCHANGED <<uiVars, hasIfc, selection, primarySelection, cutStore, disposed,
                 classVisibility, storeyVisibility, manualHidden, filteredOut,
                 isolateActive, hiderHidden, cutIgnoredClasses, loading>>
  /\ UNCHANGED sysVars

\* applyCutFromState has returned to the loop of flushCutQueue
FlushCutQueueLoop(o) ==
  /\ vis[o].pc = "ret"
  /\ vis[o].caller = "cutQueue"
  /\ FlushLoop(o)
  /\ UNCHANGED <<uiVars, hasIfc, selection, primarySelection, cutStore, cutApplyRaf, disposed,
                 classVisibility, storeyVisibility, manualHidden, filteredOut,
                 isolateActive, hiderHidden, cutIgnoredClasses, loading, opsStarted>>
  /\ UNCHANGED sysVars

\* enableCut, setCutOffset, setCutFlip called by the user interface
EnableCutCall(en) ==
  /\ ~MicroPending
  /\ EnableCut(en)
  /\ UNCHANGED <<uiVars, hasIfc, selection, primarySelection, cutOrientation, cutOffset, cutFlip,
                 disposed, engineVars>>
  /\ UNCHANGED sysVars

SetCutOffsetCall(offset) ==
  /\ ~MicroPending
  /\ SetCutOffset(offset)
  /\ UNCHANGED <<uiVars, hasIfc, selection, primarySelection, cutEnabled, cutOrientation,
                 cutFlip, disposed, engineVars>>
  /\ UNCHANGED sysVars

SetCutFlipCall(flip) ==
  /\ ~MicroPending
  /\ cutFlip' = flip
  /\ QueueApplyCut
  /\ UNCHANGED <<uiVars, hasIfc, selection, primarySelection, cutEnabled, cutOrientation,
                 cutOffset, disposed, engineVars>>
  /\ UNCHANGED sysVars

----------------------------------------------------------------------------
(* The end of loadIfcFromBuffer: lines 1875-1880 *)

\* buildGroupsForModel settles: the groups exist and the store's class and
\* storey visibility are built anew
LoadBuildsGroups(o) ==
  /\ ~MicroPending
  /\ loading
  /\ StartOp(o)
  /\ loading' = FALSE
  /\ classVisibility' = [c \in ClassIds |-> TRUE]
  /\ storeyVisibility' = [st \in StoreyIds |-> TRUE]
  /\ vis' = [vis EXCEPT ![o] = [IdleVis EXCEPT !.pc = "ret", !.caller = "built"]]
  /\ UNCHANGED <<uiVars, hasIfc, selection, primarySelection, cutStore, cutQueue, disposed,
                 manualHidden, cutHidden, filteredOut, appliedHidden,
                 visibilityForceFullApply, isolateActive, hiderHidden,
                 cutApplyInFlight, cutIgnoredClasses>>
  /\ UNCHANGED sysVars

\* line 1878: await this.applyVisibilityFromState()
LoadAppliesVisibility(o) ==
  /\ vis[o].pc = "ret"
  /\ vis[o].caller = "built"
  /\ ApplyFromState(o, "load")
  /\ UNCHANGED <<uiVars, hasIfc, selection, primarySelection, cutStore, cutQueue, disposed,
                 classVisibility, storeyVisibility, manualHidden, cutHidden,
                 filteredOut, isolateActive, hiderHidden, cutApplyInFlight,
                 cutIgnoredClasses, loading, opsStarted>>
  /\ UNCHANGED sysVars

\* line 1879: await this.applyCutFromState()
LoadAppliesCut(o) ==
  /\ vis[o].pc = "ret"
  /\ vis[o].caller = "load"
  /\ ApplyCutFromState(o, "cutLoad")
  /\ UNCHANGED <<uiVars, hasIfc, selection, primarySelection, cutStore, cutQueue, disposed,
                 classVisibility, storeyVisibility, manualHidden, filteredOut,
                 isolateActive, hiderHidden, cutApplyInFlight,
                 cutIgnoredClasses, loading, opsStarted>>
  /\ UNCHANGED sysVars

\* line 1880: await this.setActiveTool("select")
LoadSetsTool(o, c) ==
  /\ vis[o].pc = "ret"
  /\ vis[o].caller = "cutLoad"
  /\ SetActiveToolCall(c, "select")
  /\ vis' = [vis EXCEPT ![o] = IdleVis]
  /\ UNCHANGED <<visVars, cutApplyInFlight, cutIgnoredClasses, loading, opsStarted>>
  /\ UNCHANGED sysVars

----------------------------------------------------------------------------
(* Visibility of a loaded IFC model *)

\* the state after loadIfcFromBuffer has run to its end
InitVis ==
  /\ InitToolPart
  /\ InitHoverPart
  /\ InitMeasPart
  /\ InitCutPart
  /\ InitSys
  /\ classVisibility = [c \in ClassIds |-> TRUE]
  /\ storeyVisibility = [st \in StoreyIds |-> TRUE]
  /\ manualHidden = EmptyMap
  /\ cutHidden = EmptyMap
  /\ filteredOut = EmptyMap
  /\ appliedHidden = EmptyMap
  /\ visibilityForceFullApply = FALSE
  /\ isolateActive = FALSE
  /\ hiderHidden = {}
  /\ vis = [o \in VisIds |-> IdleVis]
  /\ cutApplyInFlight = FALSE
  /\ cutIgnoredClasses = {}
  /\ loading = FALSE
  /\ opsStarted = 0
  /\ hasIfc = TRUE

\* the selections and the filter results the user produces
SelectionChoices == {{}, {1}}
MatchChoices == {Elems, {1}}

\* the first key of a selection map, null for an empty one
FirstOf(sel) ==
  IF sel = {} THEN NoKey ELSE CHOOSE x \in sel : \A y \in sel : x <= y

\* the user selects elements (the store's selection only)
SetSelection(sel) ==
  /\ ~MicroPending
  /\ selection' = sel
  /\ primarySelection' = FirstOf(sel)
  /\ UNCHANGED <<uiVars, hasIfc, cutVars, engineVars>>
  /\ UNCHANGED sysVars

NextVis ==
  \/ \E o \in VisIds, id \in ClassIds, visible \in BOOLEAN :
       SetClassVisible(o, id, visible)
  \/ \E o \in VisIds, id \in StoreyIds, visible \in BOOLEAN :
       SetStoreyVisible(o, id, visible)
  \/ \E sel \in SelectionChoices : SetSelection(sel)
  \/ \E o \in VisIds : HideSelected(o)
  \/ \E o \in VisIds : IsolateSelected(o)
  \/ \E o \in VisIds : IsolateSettles(o)
  \/ \E o \in VisIds : UnhideAll(o)
  \/ \E o \in VisIds : UnhideAllSettles(o)
  \/ \E o \in VisIds, matched \in MatchChoices, mode \in {"show", "colorize"} :
       ApplyPropertyFilter(o, matched, mode)
  \/ \E o \in VisIds : ClearPropertyFilter(o)
  \/ \E o \in VisIds : ResetColorSettles(o)
  \/ \E en \in BOOLEAN : EnableCutCall(en)
  \/ \E o \in VisIds : CutRafCallback(o)
  \/ \E o \in VisIds : FlushCutQueueLoop(o)
  \/ \E o \in VisIds : CutYieldReturns(o)
  \/ \E o \in VisIds : HiderSetSettles(o)
  \/ \E o \in VisIds : ReturnToCaller(o)

SpecVis == InitVis /\ [][NextVis]_vars

----------------------------------------------------------------------------
(* The cut queue while and after an IFC model is loaded *)

\* loadIfcFromBuffer awaits buildGroupsForModel (line 1875): the model is in
\* the fragments list, the groups and the cut samples are not built yet
InitCut ==
  /\ InitToolPart
  /\ InitHoverPart
  /\ InitMeasPart
  /\ InitCutPart
  /\ InitSys
  /\ classVisibility = [c \in ClassIds |-> TRUE]
  /\ storeyVisibility = [st \in StoreyIds |-> TRUE]
  /\ manualHidden = EmptyMap
  /\ cutHidden = EmptyMap
  /\ filteredOut = EmptyMap
  /\ appliedHidden = EmptyMap
  /\ visibilityForceFullApply = TRUE
  /\ isolateActive = FALSE
  /\ hiderHidden = {}
  /\ vis = [o \in VisIds |-> IdleVis]
  /\ cutApplyInFlight = FALSE
  /\ cutIgnoredClasses = {}
  /\ loading = TRUE
  /\ opsStarted = 0
  /\ hasIfc = TRUE

NextCut ==
  \/ \E o \in VisIds : LoadBuildsGroups(o)
  \/ \E o \in VisIds : LoadAppliesVisibility(o)
  \/ \E o \in VisIds : LoadAppliesCut(o)
  \/ \E o \in VisIds, c \in CallIds : LoadSetsTool(o, c)
  \/ \E c \in CallIds : AfterSetActive(c)
  \/ \E en \in BOOLEAN : EnableCutCall(en)
  \/ \E offset \in CutMin..CutMax : SetCutOffsetCall(offset)
  \/ \E flip \in BOOLEAN : SetCutFlipCall(flip)
  \/ \E o \in VisIds : CutRafCallback(o)
  \/ \E o \in VisIds : FlushCutQueueLoop(o)
  \/ \E o \in VisIds : CutYieldReturns(o)
  \/ \E o \in VisIds : HiderSetSettles(o)

SpecCut == InitCut /\ [][NextCut]_vars

----------------------------------------------------------------------------
(* The cut queue under fair scheduling *)

\* an operation is left for the flush a cut setter queues, the tail of the
\* load keeping the one it needs
CanStillFlush == opsStarted + (IF loading THEN 1 ELSE 0) < MaxOps

\* animation frames fire, promises of the hider settle and continuations
\* run: the browser's event loop starves none of them
CutFairness ==
  /\ WF_vars(\E o \in VisIds : CutRafCallback(o))
  /\ WF_vars(\E o \in VisIds : FlushCutQueueLoop(o))
  /\ WF_vars(\E o \in VisIds : CutYieldReturns(o))
  /\ WF_vars(\E o \in VisIds : HiderSetSettles(o))
  /\ WF_vars(\E o \in VisIds : LoadAppliesVisibility(o))
  /\ WF_vars(\E o \in VisIds : LoadAppliesCut(o))
  /\ WF_vars(\E o \in VisIds, c \in CallIds : LoadSetsTool(o, c))
  /\ WF_vars(\E c \in CallIds : AfterSetActive(c))

NextCutFair ==
  \/ \E o \in VisIds : LoadBuildsGroups(o)
  \/ \E o \in VisIds : LoadAppliesVisibility(o)
  \/ \E o \in VisIds : LoadAppliesCut(o)
  \/ \E o \in VisIds, c \in CallIds : LoadSetsTool(o, c)
  \/ \E c \in CallIds : AfterSetActive(c)
  \/ \E en \in BOOLEAN : CanStillFlush /\ EnableCutCall(en)
  \/ \E offset \in CutMin..CutMax : CanStillFlush /\ SetCutOffsetCall(offset)
  \/ \E flip \in BOOLEAN : CanStillFlush /\ SetCutFlipCall(flip)
  \/ \E o \in VisIds : CutRafCallback(o)
  \/ \E o \in VisIds : FlushCutQueueLoop(o)
  \/ \E o \in VisIds : CutYieldReturns(o)
  \/ \E o \in VisIds : HiderSetSettles(o)

SpecCutFair == InitCut /\ [][NextCutFair]_vars /\ CutFairness

----------------------------------------------------------------------------
(* Hovering with the select tool: overlapping hit-tests *)

InitHover ==
  /\ InitToolPart
  /\ InitHoverPart
  /\ InitMeasPart
  /\ InitCutPart
  /\ InitSys
  /\ InitVisPart
  /\ hasIfc \in BOOLEAN

NextHover ==
  \/ \E target \in Targets, buttons \in {0, 1}, touch \in BOOLEAN :
       Select_onPointerMove(target, buttons, touch)
  \/ \E h \in HoverIds : Select_rafCallback(h)
  \/ \E h \in HoverIds : HoverRaycastResolves(h)
  \/ \E h \in HoverIds : HoverClearReturns(h)
  \/ \E h \in HoverIds : HoverHighlightDone(h)
  \/ HoverClearSettles
  \/ PointerLeave
  \/ \E sel \in SelectionChoices : SetSelection(sel)

SpecHover == InitHover /\ [][NextHover]_vars

----------------------------------------------------------------------------
(* The clear coalescers: clearHover, clearSelection, selectFromKey *)

\* whether a clearSelection call made now reaches one of its awaits
ClearSelectionWaits == hasSelectHighlight /\ hasIfc

\* clearSelection from its first line to its first await (or its return)
ClearSelectionSync ==
  /\ selection' = {}
  /\ primarySelection' = NoKey
  /\ hasSelectHighlight' = (hasSelectHighlight /\ hasIfc)
  /\ selectClearInFlight' = (selectClearInFlight \/ ClearSelectionWaits)
  /\ UNCHANGED hlSelect

\* `await this.clearHover()` or `await this.clearSelection()` by a caller
\* other than the tools (the loaders, hideSelected, resetView)
ClearCall(k, style) ==
  /\ ~MicroPending
  /\ FirstIdle(clr, k)
  /\ IF style = "hover"
     THEN /\ ClearHoverSync
          /\ clr' = [clr EXCEPT ![k] =
                       [pc |-> IF ClearHoverWaits THEN "wait" ELSE "ret",
                        style |-> style]]
          /\ UNCHANGED <<selection, primarySelection, hasSelectHighlight, selectClearInFlight,
                         hlSelect>>
     ELSE /\ ClearSelectionSync
          /\ clr' = [clr EXCEPT ![k] =
                       [pc |-> IF ClearSelectionWaits THEN "wait" ELSE "ret",
                        style |-> style]]
          /\ UNCHANGED hover5
  /\ UNCHANGED <<toolVars, selVars, hasIfc, hov, measVars, cutVars, secVars,
                 engineVars, clearOrphans, selCalls>>
  /\ UNCHANGED notClear

\* the awaited clear call k has returned to its caller
ClearCallReturns(k) ==
  /\ clr[k].pc = "ret"
  /\ clr' = [clr EXCEPT ![k] = IdleClr]
  /\ UNCHANGED <<viewVars, hasSelectHighlight, selectClearInFlight, hlSelect,
                 clearOrphans, selCalls>>
  /\ UNCHANGED notClear

\* selectFromKey from its first line to its first await, run by call q
SelectFromKeySync(q, key, multi) ==
  /\ LET raw == IF ~multi THEN {key}
                ELSE IF key \in selection THEN selection \ {key}
                ELSE selection \cup {key}
         map == rawToModelIdMap(raw)
     IN IF isEmptyMap(map)
        THEN /\ ClearSelectionSync
             /\ selCalls' = [selCalls EXCEPT ![q] =
                  [pc |-> IF ClearSelectionWaits THEN "awClearExt" ELSE "awClear",
                   key |-> key, map |-> {}, multi |-> multi]]
        ELSE /\ selection' = raw
             /\ primarySelection' = key
             /\ selCalls' = [selCalls EXCEPT ![q] =
                  [pc |-> "hl", key |-> key, map |-> Flat(map),
                   multi |-> multi]]
             /\ UNCHANGED <<hasSelectHighlight, selectClearInFlight, hlSelect>>

\* a call of selectFromKey (by selectElement, or with a key picked before)
SelectFromKey(q, key, multi) ==
  /\ ~MicroPending
  /\ FirstIdle(selCalls, q)
  /\ SelectFromKeySync(q, key, multi)
  /\ UNCHANGED <<toolVars, selVars, hasIfc, hoverVars, measVars, cutVars,
                 secVars, engineVars, clearOrphans, clr>>
  /\ UNCHANGED notClear

\* selectGroup for a class or a storey group up to its await of the
\* highlighter; the primary selection is the group's first element
SelectGroup(q, type, id) ==
  /\ ~MicroPending
  /\ FirstIdle(selCalls, q)
  /\ LET map == IF type = "class" THEN ClassGroupItems(id)
                ELSE StoreyGroupItems(id)
     IN /\ selection' = Flat(map)
        /\ primarySelection' = FirstOf(Flat(map))
        /\ selCalls' = [selCalls EXCEPT ![q] =
             [pc |-> "hl", key |-> FirstOf(Flat(map)), map |-> Flat(map),
              multi |-> FALSE]]
  /\ UNCHANGED <<hasSelectHighlight, selectClearInFlight, hlSelect>>
  /\ UNCHANGED <<toolVars, selVars, hasIfc, hoverVars, measVars, cutVars,
                 secVars, engineVars, clearOrphans, clr>>
  /\ UNCHANGED notClear

ClickCommitted_always(down, x, y) == TRUE
\* SelectTool.onPointerUp, lines 67-68: the pointer moved no farther than
\* the threshold from where it went down (Math.hypot compared by squares)
ClickCommitted(down, x, y) ==
  ~((x - down.x) * (x - down.x) + (y - down.y) * (y - down.y)
      > clickThresholdPx * clickThresholdPx)

\* what SelectTool.onPointerUp at (x, y) over target does to the tool's
\* fields and to the calls of selectFromPointerEvent
PointerUpEffect(q, button, x, y, target) ==
  IF button # 0
  THEN UNCHANGED <<selVars, selCalls>>
  ELSE /\ selPointerDown' = NoDown
       /\ selHoverSuspended' = FALSE
       /\ UNCHANGED <<selRaf, selLastMoveEv>>
       /\ IF selPointerDown.set /\ ClickCommitted(selPointerDown, x, y)
          THEN /\ FirstIdle(selCalls, q)
               /\ selCalls' = [selCalls EXCEPT ![q] =
                    [pc |-> "ray", key |-> target, map |-> {},
                     multi |-> selPointerDown.multi]]
          ELSE UNCHANGED selCalls

\* SelectTool.onPointerUp at (x, y) over target: up to the await of the
\* hit-test in selectFromPointerEvent
Select_onPointerUp(q, button, x, y, target) ==
  /\ Forward("select")
  /\ PointerUpEffect(q, button, x, y, target)
  /\ UNCHANGED <<cursor, hasIfc, hoverVars, selection, primarySelection, measVars, cutVars,
                 secVars, engineVars, hasSelectHighlight, selectClearInFlight,
                 hlSelect, clearOrphans, clr>>
  /\ UNCHANGED notClear

\* the hit-test of selectFromPointerEvent resolves: no hit clears the
\* selection unless multi, a hit goes to selectFromKey
SelectRaycastResolves(q) ==
  /\ ~MicroPending
  /\ selCalls[q].pc = "ray"
  /\ LET hit == RaycastHit(selCalls[q].key)
         multi == selCalls[q].multi
     IN IF hit = NoKey
        THEN IF multi
             THEN /\ selCalls' = [selCalls EXCEPT ![q] = IdleSel]
                  /\ UNCHANGED <<selection, primarySelection, hasSelectHighlight,
                                 selectClearInFlight, hlSelect>>
             ELSE /\ ClearSelectionSync
                  /\ selCalls' = [selCalls EXCEPT ![q] =
                       [pc |-> IF ClearSelectionWaits THEN "awClearExt"
                               ELSE "awClear",
                        key |-> NoKey, map |-> {}, multi |-> multi]]
        ELSE SelectFromKeySync(q, hit, multi)
  /\ UNCHANGED <<toolVars, selVars, hasIfc, hoverVars, measVars, cutVars,
                 secVars, engineVars, clearOrphans, clr>>
  /\ UNCHANGED notClear

\* highlighter.highlightByID("select", map, true, false) of call q settles
SelectHighlightDone(q) ==
  /\ ~MicroPending
  /\ selCalls[q].pc = "hl"
  /\ hlSelect' = selCalls[q].map
  /\ hasSelectHighlight' = TRUE
  /\ selCalls' = [selCalls EXCEPT ![q] = IdleSel]
  /\ UNCHANGED <<viewVars, selectClearInFlight, clearOrphans, clr>>
  /\ UNCHANGED notClear

\* the clearSelection awaited by selectFromKey call q has returned
SelectClearReturns(q) ==
  /\ selCalls[q].pc = "awClear"
  /\ selCalls' = [selCalls EXCEPT ![q] = IdleSel]
  /\ UNCHANGED <<viewVars, hasSelectHighlight, selectClearInFlight, hlSelect,
                 clearOrphans, clr>>
  /\ UNCHANGED notClear

\* highlighter.clear("select") settles before the timer of settleOrWarn
SelectClearSettles == ClearPromiseSettles("select", FALSE)

\* the 1200 ms timer of settleOrWarn fires first
ClearTimesOut(style) == ClearPromiseSettles(style, TRUE)

\* a highlighter.clear(style) left running by a timeout settles
OrphanClearSettles(style) ==
  /\ ~MicroPending
  /\ clearOrphans[style] > 0
  /\ clearOrphans' = [clearOrphans EXCEPT ![style] = @ - 1]
  /\ IF style = "hover"
     THEN hlHover' = {} /\ UNCHANGED hlSelect
     ELSE hlSelect' = {} /\ UNCHANGED hlHover
  /\ UNCHANGED <<toolVars, selVars, hasIfc, hoverRequestSerial, hovered,
                 hasHoverHighlight, hoverClearInFlight, hov, selection, primarySelection,
                 measVars, cutVars, secVars, engineVars, hasSelectHighlight,
                 selectClearInFlight, clr, selCalls>>
  /\ UNCHANGED notClear

InitClear ==
  /\ InitToolPart
  /\ InitHoverPart
  /\ InitMeasPart
  /\ InitCutPart
  /\ InitSys
  /\ InitVisPart
  /\ hasIfc \in BOOLEAN

\* the element the pointer is over and the user clicks
ClearTargets == {1}

NextClear ==
  \/ \E target \in ClearTargets \cup {NoKey} :
       Select_onPointerMove(target, 0, FALSE)
  \/ \E h \in ToolsHoverIds : Select_rafCallback(h)
  \/ \E h \in ToolsHoverIds : HoverRaycastResolves(h)
  \/ \E h \in ToolsHoverIds : HoverClearReturns(h)
  \/ \E h \in ToolsHoverIds : HoverHighlightDone(h)
  \/ PointerLeave
  \/ \E k \in ClrIds, style \in Styles : ClearCall(k, style)
  \/ \E k \in ClrIds : ClearCallReturns(k)
  \/ \E q \in SelIds, key \in ClearTargets, multi \in BOOLEAN :
       SelectFromKey(q, key, multi)
  \/ \E q \in SelIds : SelectHighlightDone(q)
  \/ \E q \in SelIds : SelectClearReturns(q)
  \/ HoverClearSettles
  \/ SelectClearSettles
  \/ \E style \in Styles : ClearTimesOut(style)
  \/ \E style \in Styles : OrphanClearSettles(style)

SpecClear == InitClear /\ [][NextClear]_vars

\* clicks of the select tool on a loaded IFC model
InitClick ==
  /\ InitToolPart
  /\ InitHoverPart
  /\ InitMeasPart
  /\ InitCutPart
  /\ InitSys
  /\ InitVisPart
  /\ hasIfc = TRUE

NextClick ==
  \/ \E button \in {0, 2}, x \in ClickCoords, y \in ClickCoords,
         multi \in BOOLEAN : Select_onPointerDown(button, x, y, multi)
  \/ \E q \in SelIds, button \in {0, 2}, x \in ClickCoords,
         y \in ClickCoords, target \in Targets :
       Select_onPointerUp(q, button, x, y, target)
  \/ \E q \in SelIds : SelectRaycastResolves(q)
  \/ \E q \in SelIds : SelectHighlightDone(q)
  \/ \E q \in SelIds : SelectClearReturns(q)
  \/ SelectClearSettles

SpecClick == InitClick /\ [][NextClick]_vars

\* the kinds of element groups and their ids
GroupChoices ==
  {<<"class", id>> : id \in ClassIds} \cup {<<"storey", id>> : id \in StoreyIds}

\* every way the selection is set: selectElement, clicks, selectGroup,
\* clearSelection
NextSelect ==
  \/ \E q \in SelIds, key \in Elems, multi \in BOOLEAN :
       SelectFromKey(q, key, multi)
  \/ \E button \in {0, 2}, multi \in BOOLEAN :
       Select_onPointerDown(button, 0, 0, multi)
  \/ \E q \in SelIds, button \in {0, 2}, target \in Targets :
       Select_onPointerUp(q, button, 0, 0, target)
  \/ \E q \in SelIds : SelectRaycastResolves(q)
  \/ \E q \in SelIds, g \in GroupChoices : SelectGroup(q, g[1], g[2])
  \/ \E k \in ClrIds : ClearCall(k, "select")
  \/ \E k \in ClrIds : ClearCallReturns(k)
  \/ \E q \in SelIds : SelectHighlightDone(q)
  \/ \E q \in SelIds : SelectClearReturns(q)
  \/ SelectClearSettles

SpecSelect == InitClick /\ [][NextSelect]_vars

----------------------------------------------------------------------------
(* The SectionManager under its setters *)

SmOffsets == {0, 1}

InitSection ==
  /\ InitToolPart
  /\ InitHoverPart
  /\ InitMeasPart
  /\ InitCutPart
  /\ InitSys
  /\ InitVisPart
  /\ hasIfc = FALSE

NextSection ==
  \/ \E en \in BOOLEAN : SM_setEnabled(en)
  \/ \E mode \in {"box", "plane"} : SM_setMode(mode)
  \/ \E invert \in BOOLEAN : SM_setInvert(invert)
  \/ \E axis \in {"x", "y", "z"} : SM_setPlaneAxis(axis)
  \/ \E offset \in SmOffsets : SM_setPlaneOffset(offset)
  \/ \E locked \in BOOLEAN : SM_setLockRotation(locked)
  \/ \E pose \in Poses : SM_resetBoxToBounds(pose)
  \/ \E root \in (SUBSET Mats) \ {{}} : SM_registerMaterialsFrom(root)
  \/ SM_clearMaterials
  \/ \E pose \in Poses : SM_controlsChange(pose)
  \/ SM_boxPlaneRaf

SpecSection == InitSection /\ [][NextSection]_vars

----------------------------------------------------------------------------
(* MeasurementManager: the measurements of the scene and their visuals *)

\* the objects add puts into the group for one measurement
MmParts == {"line", "arrowStart", "arrowEnd", "label"}

\* Vector3.distanceTo; a length is represented by its square
DistanceTo(a, b) ==
  (a[1] - b[1]) * (a[1] - b[1]) + (a[2] - b[2]) * (a[2] - b[2])

\* list(): one entry per item, meters computed from the stored points
MM_list ==
  {[id |-> i, start |-> mmItems[i].start, end |-> mmItems[i].end,
    meters |-> DistanceTo(mmItems[i].start, mmItems[i].end)] :
     i \in DOMAIN mmItems}

Stored_all(items, ids) == ids
\* remove's guard: the ids of ids that items holds
Stored(items, ids) == ids \cap DOMAIN items

ItemsWithout_keeps(items, ids) == items
\* items.delete for each id of ids
ItemsWithout(items, ids) == [i \in (DOMAIN items) \ ids |-> items[i]]

\* remove(id) for each id of ids: an id not stored is skipped; the item is
\* deleted, its objects leave the group and its resources are disposed
MM_removeEach(ids) ==
  LET gone == Stored(mmItems, ids) IN
  /\ mmItems' = ItemsWithout(mmItems, gone)
  /\ mmGroup' = {o \in mmGroup : o[1] \notin gone}
  /\ mmDisposals' = [i \in MmIds |->
                       IF i \in gone THEN mmDisposals[i] + 1
                       ELSE mmDisposals[i]]

MM_add(start, end) ==
  /\ mmNextId <= MaxMmIds
  /\ LET id == mmNextId
         it == [start |-> start, end |-> end] IN
       /\ mmItems' = [i \in (DOMAIN mmItems) \cup {id} |->
                        IF i = id THEN it ELSE mmItems[i]]
       /\ mmGroup' = mmGroup \cup {<<id, part>> : part \in MmParts}
       /\ mmGiven' = [i \in (DOMAIN mmGiven) \cup {id} |->
                        IF i = id THEN it ELSE mmGiven[i]]
       /\ mmLive' = mmLive \cup {id}
  /\ mmNextId' = mmNextId + 1
  /\ UNCHANGED <<mmInScene, mmDisposals>>
  /\ UNCHANGED notMeasurements

MM_remove(id) ==
  /\ MM_removeEach({id})
  /\ mmLive' = mmLive \ {id}
  /\ UNCHANGED <<mmInScene, mmNextId, mmGiven>>
  /\ UNCHANGED notMeasurements

\* clear(): remove for a copy of the keys
MM_clearItems ==
  /\ MM_removeEach(DOMAIN mmItems)
  /\ mmLive' = {}
  /\ UNCHANGED <<mmNextId, mmGiven>>

MM_clear ==
  /\ MM_clearItems
  /\ UNCHANGED mmInScene
  /\ UNCHANGED notMeasurements

MM_dispose ==
  /\ MM_clearItems
  /\ mmInScene' = FALSE
  /\ UNCHANGED notMeasurements

InitMeasurements ==
  /\ InitToolPart
  /\ InitHoverPart
  /\ InitMeasPart
  /\ InitCutPart
  /\ InitSys
  /\ InitVisPart
  /\ hasIfc = FALSE

NextMeasurements ==
  \/ \E start \in Points, end \in Points : MM_add(start, end)
  \/ \E id \in MmIds : MM_remove(id)
  \/ MM_clear
  \/ MM_dispose

SpecMeasurements == InitMeasurements /\ [][NextMeasurements]_vars

----------------------------------------------------------------------------
(* The property filter: export to JSON text and import from it.  A text   *)
(* and a string value are sequences of characters.                         *)

Operators == {"contains", "equals", "not_equals", "gt", "lt", "gte", "lte"}
Modes == {"show", "colorize"}
FilterKeys == <<"pset", "property", "operator", "value", "mode">>

\* the characters of a key and of an enum value
Text(name) ==
  CASE name = "pset" -> <<"p", "s", "e", "t">>
    [] name = "property" -> <<"p", "r", "o", "p", "e", "r", "t", "y">>
    [] name = "operator" -> <<"o", "p", "e", "r", "a", "t", "o", "r">>
    [] name = "value" -> <<"v", "a", "l", "u", "e">>
    [] name = "mode" -> <<"m", "o", "d", "e">>
    [] name = "contains" -> <<"c", "o", "n", "t", "a", "i", "n", "s">>
    [] name = "equals" -> <<"e", "q", "u", "a", "l", "s">>
    [] name = "not_equals" ->
         <<"n", "o", "t", "_", "e", "q", "u", "a", "l", "s">>
    [] name = "gt" -> <<"g", "t">>
    [] name = "lt" -> <<"l", "t">>
    [] name = "gte" -> <<"g", "t", "e">>
    [] name = "lte" -> <<"l", "t", "e">>
    [] name = "show" -> <<"s", "h", "o", "w">>
    [] name = "colorize" -> <<"c", "o", "l", "o", "r", "i", "z", "e">>

\* JSON values: t is the type; v the characters of a string, a number or a
\* literal; f the members of an object
JNull == [t |-> "null", v |-> <<>>]
JStr(chars) == [t |-> "str", v |-> chars]
JNum(digits) == [t |-> "num", v |-> digits]
JBool(chars) == [t |-> "bool", v |-> chars]
JArr == [t |-> "arr", v |-> <<>>]
JObj(members) == [t |-> "obj", v |-> <<>>, f |-> members]
\* JSON.parse throws, and property access yields undefined
JError == [t |-> "error", v |-> <<>>]
JUndefined == [t |-> "undefined", v |-> <<>>]

EscapeChar_raw(c) == <<c>>
\* JSON.stringify's escapes of the quote, the backslash and the newline
EscapeChar(c) ==
  IF c = "\"" THEN <<"\\", "\"">>
  ELSE IF c = "\\" THEN <<"\\", "\\">>
  ELSE IF c = "\n" THEN <<"\\", "n">>
  ELSE <<c>>

RECURSIVE EscapeAll(_)
EscapeAll(chars) ==
  IF chars = <<>> THEN <<>>
  ELSE EscapeChar(Head(chars)) \o EscapeAll(Tail(chars))

\* a string literal
Quote(chars) == <<"\"">> \o EscapeAll(chars) \o <<"\"">>

\* the value a filter holds under key, as the characters JSON.stringify
\* writes
FieldChars(filter, key) ==
  IF key \in {"operator", "mode"} THEN Text(filter[key]) ELSE filter[key]

RECURSIVE ExportMembers(_, _)
\* the members of the exported object from the k-th on, indented by two
ExportMembers(filter, k) ==
  IF k > Len(FilterKeys) THEN <<>>
  ELSE <<"\n", " ", " ">> \o Quote(Text(FilterKeys[k])) \o <<":", " ">>
         \o Quote(FieldChars(filter, FilterKeys[k]))
         \o (IF k < Len(FilterKeys) THEN <<",">> ELSE <<>>)
         \o ExportMembers(filter, k + 1)

\* exportPropertyFilterJson: JSON.stringify of the five fields, indent 2
ExportPropertyFilterJson(filter) ==
  <<"{">> \o ExportMembers(filter, 1) \o <<"\n", "}">>

\* JSON.parse ---------------------------------------------------------------
Digits == {"0", "1", "2", "3", "4", "5", "6", "7", "8", "9"}
ParseFail == [ok |-> FALSE, v |-> JError, i |-> 0]
Parsed(value, i) == [ok |-> TRUE, v |-> value, i |-> i]

RECURSIVE SkipWs(_, _)
SkipWs(t, i) ==
  IF i <= Len(t) /\ t[i] \in {" ", "\n"} THEN SkipWs(t, i + 1) ELSE i

\* t holds the characters of lit from position i on
HasLiteral(t, i, lit) ==
  /\ i + Len(lit) - 1 <= Len(t)
  /\ \A k \in 1..Len(lit) : t[i + k - 1] = lit[k]

RECURSIVE ParseChars(_, _, _)
\* the rest of a string literal whose opening quote has been read; the
\* escapes \b \f \r \t \u do not occur in the texts of this model
ParseChars(t, i, acc) ==
  IF i > Len(t) THEN ParseFail
  ELSE IF t[i] = "\"" THEN Parsed(JStr(acc), i + 1)
  ELSE IF t[i] = "\n" THEN ParseFail
  ELSE IF t[i] = "\\" THEN
    IF i + 1 > Len(t) THEN ParseFail
    ELSE IF t[i + 1] \in {"\"", "\\", "/"}
      THEN ParseChars(t, i + 2, Append(acc, t[i + 1]))
    ELSE IF t[i + 1] = "n" THEN ParseChars(t, i + 2, Append(acc, "\n"))
    ELSE ParseFail
  ELSE ParseChars(t, i + 1, Append(acc, t[i]))

RECURSIVE ParseDigits(_, _, _)
ParseDigits(t, i, acc) ==
  IF i <= Len(t) /\ t[i] \in Digits
    THEN ParseDigits(t, i + 1, Append(acc, t[i]))
  ELSE IF Len(acc) > 1 /\ acc[1] = "0" THEN ParseFail
  ELSE Parsed(JNum(acc), i)

RECURSIVE ParseValue(_, _)
RECURSIVE ParseMembers(_, _, _)
RECURSIVE ParseElements(_, _)

\* the members of an object after "{" or ","; a repeated key overrides
ParseMembers(t, i, acc) ==
  LET j == SkipWs(t, i) IN
  IF j > Len(t) \/ t[j] # "\"" THEN ParseFail
  ELSE
    LET key == ParseChars(t, j + 1, <<>>) IN
    IF ~key.ok THEN ParseFail
    ELSE
      LET c == SkipWs(t, key.i) IN
      IF c > Len(t) \/ t[c] # ":" THEN ParseFail
      ELSE
        LET val == ParseValue(t, SkipWs(t, c + 1)) IN
        IF ~val.ok THEN ParseFail
        ELSE
          LET more == [k \in (DOMAIN acc) \cup {key.v.v} |->
                         IF k = key.v.v THEN val.v ELSE acc[k]]
              e == SkipWs(t, val.i) IN
          IF e > Len(t) THEN ParseFail
          ELSE IF t[e] = "}" THEN Parsed(JObj(more), e + 1)
          ELSE IF t[e] = "," THEN ParseMembers(t, e + 1, more)
          ELSE ParseFail

\* the elements of an array after "[" or ","; the elements are not kept
ParseElements(t, i) ==
  LET val == ParseValue(t, SkipWs(t, i)) IN
  IF ~val.ok THEN ParseFail
  ELSE
    LET e == SkipWs(t, val.i) IN
    IF e > Len(t) THEN ParseFail
    ELSE IF t[e] = "]" THEN Parsed(JArr, e + 1)
    ELSE IF t[e] = "," THEN ParseElements(t, e + 1)
    ELSE ParseFail

\* the value that starts at position i
ParseValue(t, i) ==
  IF i > Len(t) THEN ParseFail
  ELSE IF t[i] = "\"" THEN ParseChars(t, i + 1, <<>>)
  ELSE IF t[i] \in Digits THEN ParseDigits(t, i, <<>>)
  ELSE IF HasLiteral(t, i, <<"n", "u", "l", "l">>) THEN Parsed(JNull, i + 4)
  ELSE IF HasLiteral(t, i, <<"t", "r", "u", "e">>)
    THEN Parsed(JBool(<<"t", "r", "u", "e">>), i + 4)
  ELSE IF HasLiteral(t, i, <<"f", "a", "l", "s", "e">>)
    THEN Parsed(JBool(<<"f", "a", "l", "s", "e">>), i + 5)
  ELSE IF t[i] = "{" THEN
    LET j == SkipWs(t, i + 1) IN
    IF j <= Len(t) /\ t[j] = "}"
      THEN Parsed(JObj([k \in {} |-> JNull]), j + 1)
    ELSE ParseMembers(t, i + 1, [k \in {} |-> JNull])
  ELSE IF t[i] = "[" THEN
    LET j == SkipWs(t, i + 1) IN
    IF j <= Len(t) /\ t[j] = "]" THEN Parsed(JArr, j + 1)
    ELSE ParseElements(t, i + 1)
  ELSE ParseFail

\* JSON.parse: one value with nothing but white space around it, or an error
JsonParse(t) ==
  LET r == ParseValue(t, SkipWs(t, 1)) IN
  IF r.ok /\ SkipWs(t, r.i) = Len(t) + 1 THEN r.v ELSE JError

\* importPropertyFilterJson ------------------------------------------------
isRecord(value) == value.t \in {"obj", "arr"}

\* parsed.key
Get(parsed, key) ==
  IF parsed.t = "obj" /\ Text(key) \in DOMAIN parsed.f
    THEN parsed.f[Text(key)]
  ELSE JUndefined

ValidString_any(value) == TRUE
\* typeof value === "string"
ValidString(value) == value.t = "str"

\* value is one of the strings of enum
ValidEnum(value, enum) ==
  value.t = "str" /\ \E name \in enum : Text(name) = value.v

EnumOf(value, enum) == CHOOSE name \in enum : Text(name) = value.v

\* the keys importPropertyFilterJson puts into next
NextKeys(parsed) ==
  {key \in {"pset", "property", "value"} : ValidString(Get(parsed, key))}
    \cup (IF ValidEnum(Get(parsed, "operator"), Operators)
            THEN {"operator"} ELSE {})
    \cup (IF ValidEnum(Get(parsed, "mode"), Modes) THEN {"mode"} ELSE {})

NextOf(parsed) ==
  [key \in NextKeys(parsed) |->
     IF key = "operator" THEN EnumOf(Get(parsed, key), Operators)
     ELSE IF key = "mode" THEN EnumOf(Get(parsed, key), Modes)
     ELSE Get(parsed, key).v]

\* setPropertyFilter: { ...s.propertyFilter, ...next }
Merged(filter, next) ==
  [key \in DOMAIN filter |->
     IF key \in DOMAIN next THEN next[key] ELSE filter[key]]

\* importPropertyFilterJson once JSON.parse has returned parsed or thrown
ImportParsed(parsed) ==
  /\ pfHistory < MaxHistory
  /\ IF parsed.t = "error" \/ ~isRecord(parsed)
       THEN /\ pfOutcome' = "error"
            /\ UNCHANGED <<pf, pfHistory>>
       ELSE /\ pf' = Merged(pf, NextOf(parsed))
            /\ pfHistory' = pfHistory + 1
            /\ pfOutcome' = "ok"
  /\ UNCHANGED notFilter

ImportPropertyFilterJson(raw) == ImportParsed(JsonParse(raw))

\* the strings a user types into a field
RECURSIVE StringsUpTo(_)
StringsUpTo(n) ==
  IF n = 0 THEN {<<>>}
  ELSE LET shorter == StringsUpTo(n - 1) IN
       shorter \cup {Append(str, c) : str \in shorter,
                                     c \in {"a", "\"", "\\"}}
UiStrings == StringsUpTo(MaxStrLen)

\* RightPanel: one field of the filter is edited
PF_setFilter(key, value) ==
  /\ pf' = Merged(pf, [k \in {key} |-> value])
  /\ pfCall' = [kind |-> "none", input |-> <<>>]
  /\ UNCHANGED <<pfHistory, pfOutcome>>
  /\ UNCHANGED notFilter

\* applyPropertyFilterFromState has marked the filter active
PF_setActive ==
  /\ pf' = Merged(pf, [k \in {"active"} |-> TRUE])
  /\ pfCall' = [kind |-> "none", input |-> <<>>]
  /\ UNCHANGED <<pfHistory, pfOutcome>>
  /\ UNCHANGED notFilter

\* resetPropertyFilter
PF_reset ==
  /\ pf' = [pset |-> <<>>, property |-> <<>>, operator |-> "contains",
            value |-> <<>>, mode |-> "show", active |-> FALSE]
  /\ pfCall' = [kind |-> "none", input |-> <<>>]
  /\ UNCHANGED <<pfHistory, pfOutcome>>
  /\ UNCHANGED notFilter

\* importPropertyFilterJson(exportPropertyFilterJson())
PF_roundTrip ==
  /\ ImportPropertyFilterJson(ExportPropertyFilterJson(pf))
  /\ pfCall' = [kind |-> "roundTrip", input |-> <<>>]

\* a compact JSON text of a value, as a user may write it
RECURSIVE JsonMembers(_, _)
JsonText(value) ==
  CASE value.t = "str" -> Quote(value.v)
    [] value.t = "arr" -> <<"[", "]">>
    [] value.t = "null" -> <<"n", "u", "l", "l">>
    [] value.t = "obj" -> <<"{">> \o JsonMembers(value.f, 1) \o <<"}">>
    [] OTHER -> value.v
JsonMembers(members, k) ==
  IF k > Len(FilterKeys) THEN <<>>
  ELSE LET key == Text(FilterKeys[k])
           later == JsonMembers(members, k + 1) IN
       IF key \notin DOMAIN members THEN later
       ELSE Quote(key) \o <<":">> \o
            JsonText(members[key])
            \o (IF later = <<>> THEN <<>> ELSE <<",">> \o later)

\* what an imported object may carry per key: a value of the right type
\* or enum and one of a wrong one
GoodValue(key) ==
  CASE key = "pset" -> JStr(<<"\\", "\"">>)
    [] key = "property" -> JStr(<<"a">>)
    [] key = "operator" -> JStr(Text("gte"))
    [] key = "value" -> JStr(<<"\"", "a">>)
    [] key = "mode" -> JStr(Text("colorize"))
BadValue(key) ==
  CASE key = "pset" -> JNum(<<"1">>)
    [] key = "property" -> JNull
    [] key = "operator" -> JStr(Text("show"))
    [] key = "value" -> JArr
    [] key = "mode" -> JBool(<<"t", "r", "u", "e">>)

FilterKeySet == {FilterKeys[k] : k \in 1..Len(FilterKeys)}

\* the objects imported: every key absent, good or bad
InputObjects ==
  {JObj([key \in {Text(name) : name \in good \cup bad} |->
           LET name == CHOOSE n \in good \cup bad : Text(n) = key IN
           IF name \in good THEN GoodValue(name) ELSE BadValue(name)]) :
     good \in SUBSET FilterKeySet,
     bad \in SUBSET FilterKeySet}

\* the object that carries a valid value under each of the five keys
AllGoodObject ==
  JObj([key \in {Text(name) : name \in FilterKeySet} |->
          GoodValue(CHOOSE n \in FilterKeySet : Text(n) = key)])

InputValues ==
  InputObjects
    \cup {JNull, JNum(<<"1">>), JBool(<<"t", "r", "u", "e">>),
          JStr(<<"a">>), JArr}

\* texts JSON.parse rejects: empty, cut short, a trailing comma, a key
\* without quotes, an open string, an unknown escape
MalformedTexts ==
  {<<>>,
   <<"{">>,
   <<"{">> \o Quote(Text("pset")) \o <<":">> \o Quote(<<"a">>),
   <<"{">> \o Quote(Text("pset")) \o <<":">> \o Quote(<<"a">>) \o <<",", "}">>,
   <<"{">> \o Text("pset") \o <<":">> \o Quote(<<"a">>) \o <<"}">>,
   <<"\"", "a">>,
   <<"{">> \o Quote(Text("pset")) \o <<":", "\"", "\\", "a", "\"", "}">>}

\* JSON.parse of the text of each value and of each malformed text
ParsedValues == [value \in InputValues |-> JsonParse(JsonText(value))]
ParsedMalformed == [raw \in MalformedTexts |-> JsonParse(raw)]

\* importPropertyFilterJson(JsonText(value))
PF_importValue(value) ==
  /\ ImportParsed(ParsedValues[value])
  /\ pfCall' = [kind |-> "value", input |-> value]

\* importPropertyFilterJson(raw)
PF_importMalformed(raw) ==
  /\ ImportParsed(ParsedMalformed[raw])
  /\ pfCall' = [kind |-> "malformed", input |-> raw]

InitFilter ==
  /\ InitToolPart
  /\ InitHoverPart
  /\ InitMeasPart
  /\ InitCutPart
  /\ InitSys
  /\ InitVisPart
  /\ hasIfc = FALSE

NextFilter ==
  \/ \E key \in {"pset", "property", "value"}, str \in UiStrings :
       PF_setFilter(key, str)
  \/ \E operator \in Operators : PF_setFilter("operator", operator)
  \/ \E mode \in Modes : PF_setFilter("mode", mode)
  \/ PF_setActive
  \/ PF_reset
  \/ PF_roundTrip
  \/ PF_importValue(AllGoodObject)

SpecFilter == InitFilter /\ [][NextFilter]_vars

\* imports of every input into filters edited field by field
NextImport ==
  \/ \E key \in {"pset", "property", "value"} : PF_setFilter(key, <<"a">>)
  \/ PF_setFilter("operator", "equals")
  \/ PF_setFilter("mode", "colorize")
  \/ PF_setActive
  \/ PF_reset
  \/ \E value \in InputValues : PF_importValue(value)
  \/ \E raw \in MalformedTexts : PF_importMalformed(raw)

SpecImport == InitFilter /\ [][NextImport]_vars

----------------------------------------------------------------------------
(* BvhManager: the worker, its pending requests and the local fallback.   *)
(* A request is named by the slot of its buildGeometryBVH call.  pc of a  *)
(* call: "waiting" for the worker's reply or the timer, "resolved" and    *)
(* "rejected" when the then- or the catch-handler of line 205 is due,     *)
(* "done" when the promise returned has been fulfilled.                   *)

GetWorkerIsNull_never(isDisabled) == FALSE
\* getWorker returns null without looking at the worker
GetWorkerIsNull(isDisabled) == isDisabled

\* rejectAllPending seen from the calls: the promise p of every pending
\* request is rejected
AllPendingRejected(reqs, pending) ==
  [r \in BvhIds |->
     IF r \in pending /\ reqs[r].pc = "waiting"
       THEN [reqs[r] EXCEPT !.pc = "rejected"]
       ELSE reqs[r]]

\* call r has returned the promise of buildGeometryBVHLocal for geometry g
BuiltLocally(reqs, r, g) ==
  [reqs EXCEPT ![r] = [pc |-> "done", path |-> "local", geom |-> g]]

\* disableWorker (dispose has the same body)
DisableWorker(reqs) ==
  /\ bvhReq' = AllPendingRejected(reqs, bvhPending)
  /\ bvhPending' = {}
  /\ bvhWorker' = FALSE
  /\ bvhDisabled' = TRUE

\* buildGeometryBVH for geometry g (with a position attribute): nothing to
\* do if g has a bounds tree; else getWorker, then the request is registered
\* and posted; canCreate and canPost say whether new Worker and postMessage
\* return or throw
BVH_buildGeometryBVH(r, g, canCreate, canPost) ==
  /\ FirstIdle(bvhReq, r)
  /\ IF g \in bvhBuilt
       THEN /\ bvhReq' = [bvhReq EXCEPT
                            ![r] = [pc |-> "done", path |-> "none",
                                    geom |-> g]]
            /\ UNCHANGED <<bvhWorker, bvhDisabled, bvhPending, bvhCreated,
                           bvhBuilt>>
       ELSE IF GetWorkerIsNull(bvhDisabled)
         THEN /\ bvhReq' = BuiltLocally(bvhReq, r, g)
              /\ bvhBuilt' = bvhBuilt \cup {g}
              /\ UNCHANGED <<bvhWorker, bvhDisabled, bvhPending, bvhCreated>>
       ELSE IF ~bvhWorker /\ ~canCreate
         THEN /\ bvhDisabled' = TRUE
              /\ bvhReq' = BuiltLocally(bvhReq, r, g)
              /\ bvhBuilt' = bvhBuilt \cup {g}
              /\ UNCHANGED <<bvhWorker, bvhPending, bvhCreated>>
       ELSE /\ bvhCreated' = IF bvhWorker THEN bvhCreated ELSE bvhCreated + 1
            /\ IF canPost
                 THEN /\ bvhWorker' = TRUE
                      /\ bvhPending' = bvhPending \cup {r}
                      /\ bvhReq' = [bvhReq EXCEPT
                                      ![r] = [pc |-> "waiting",
                                              path |-> "worker",
                                              geom |-> g]]
                      /\ UNCHANGED <<bvhDisabled, bvhBuilt>>
                 ELSE /\ DisableWorker(BuiltLocally(bvhReq, r, g))
                      /\ bvhBuilt' = bvhBuilt \cup {g}
  /\ UNCHANGED notBvh

\* worker.onmessage with a success reply for request r
BVH_onmessageSuccess(r) ==
  /\ ~MicroPending
  /\ bvhWorker
  /\ bvhReq[r].pc = "waiting"
  /\ r \in bvhPending
  /\ bvhPending' = bvhPending \ {r}
  /\ bvhReq' = [bvhReq EXCEPT ![r].pc = "resolved"]
  /\ UNCHANGED <<bvhWorker, bvhDisabled, bvhCreated, bvhBuilt>>
  /\ UNCHANGED notBvh

\* worker.onmessage with an error reply for request r
BVH_onmessageError(r) ==
  /\ ~MicroPending
  /\ bvhWorker
  /\ bvhReq[r].pc = "waiting"
  /\ r \in bvhPending
  /\ bvhPending' = bvhPending \ {r}
  /\ bvhReq' = [bvhReq EXCEPT ![r].pc = "rejected"]
  /\ UNCHANGED <<bvhWorker, bvhDisabled, bvhCreated, bvhBuilt>>
  /\ UNCHANGED notBvh

BVH_timeout_never(r) ==
  /\ FALSE
  /\ UNCHANGED vars

\* the 8 s timer of request r fires
BVH_timeout(r) ==
  /\ ~MicroPending
  /\ bvhReq[r].pc = "waiting"
  /\ bvhPending' = bvhPending \ {r}
  /\ bvhReq' = [bvhReq EXCEPT ![r].pc = "rejected"]
  /\ UNCHANGED <<bvhWorker, bvhDisabled, bvhCreated, bvhBuilt>>
  /\ UNCHANGED notBvh

\* the then-handler: MeshBVH.deserialize returns, or it throws and the
\* catch-handler disables the worker and builds locally
BVH_then(r, deserialized) ==
  /\ bvhReq[r].pc = "resolved"
  /\ IF deserialized
       THEN /\ bvhReq' = [bvhReq EXCEPT ![r].pc = "done"]
            /\ UNCHANGED <<bvhWorker, bvhDisabled, bvhPending>>
       ELSE DisableWorker(BuiltLocally(bvhReq, r, bvhReq[r].geom))
  /\ bvhBuilt' = bvhBuilt \cup {bvhReq[r].geom}
  /\ UNCHANGED bvhCreated
  /\ UNCHANGED notBvh

\* the catch-handler after a rejection
BVH_catch(r) ==
  /\ bvhReq[r].pc = "rejected"
  /\ DisableWorker(BuiltLocally(bvhReq, r, bvhReq[r].geom))
  /\ bvhBuilt' = bvhBuilt \cup {bvhReq[r].geom}
  /\ UNCHANGED bvhCreated
  /\ UNCHANGED notBvh

\* the caller's await of buildGeometryBVH resumes
BVH_returns(r) ==
  /\ bvhReq[r].pc = "done"
  /\ bvhReq' = [bvhReq EXCEPT ![r] = IdleBvh]
  /\ UNCHANGED <<bvhWorker, bvhDisabled, bvhPending, bvhCreated, bvhBuilt>>
  /\ UNCHANGED notBvh

\* worker.onmessageerror
BVH_onmessageerror ==
  /\ ~MicroPending
  /\ bvhWorker
  /\ DisableWorker(bvhReq)
  /\ UNCHANGED <<bvhCreated, bvhBuilt>>
  /\ UNCHANGED notBvh

\* worker.onerror
BVH_onerror ==
  /\ ~MicroPending
  /\ bvhWorker
  /\ DisableWorker(bvhReq)
  /\ UNCHANGED <<bvhCreated, bvhBuilt>>
  /\ UNCHANGED notBvh

\* dispose()
BVH_dispose ==
  /\ ~MicroPending
  /\ DisableWorker(bvhReq)
  /\ UNCHANGED <<bvhCreated, bvhBuilt>>
  /\ UNCHANGED notBvh

InitBvh ==
  /\ InitToolPart
  /\ InitHoverPart
  /\ InitMeasPart
  /\ InitCutPart
  /\ InitSys
  /\ InitVisPart
  /\ hasIfc = FALSE

NextBvh ==
  \/ \E r \in BvhIds, g \in Geoms, canCreate \in BOOLEAN, canPost \in BOOLEAN :
       BVH_buildGeometryBVH(r, g, canCreate, canPost)
  \/ \E r \in BvhIds : BVH_onmessageSuccess(r)
  \/ \E r \in BvhIds : BVH_onmessageError(r)
  \/ \E r \in BvhIds : BVH_timeout(r)
  \/ \E r \in BvhIds, deserialized \in BOOLEAN : BVH_then(r, deserialized)
  \/ \E r \in BvhIds : BVH_catch(r)
  \/ \E r \in BvhIds : BVH_returns(r)
  \/ BVH_onmessageerror
  \/ BVH_onerror
  \/ BVH_dispose

SpecBvh == InitBvh /\ [][NextBvh]_vars

\* buildForObject collects the geometries of the object just loaded in a
\* Set and passes each to buildGeometryBVH once: the calls that reach the
\* manager are for geometries without a bounds tree, and they are finitely
\* many
NextBvhFair ==
  \/ \E r \in BvhIds, g \in Geoms \ bvhBuilt,
         canCreate \in BOOLEAN, canPost \in BOOLEAN :
       BVH_buildGeometryBVH(r, g, canCreate, canPost)
  \/ \E r \in BvhIds : BVH_onmessageSuccess(r)
  \/ \E r \in BvhIds : BVH_onmessageError(r)
  \/ \E r \in BvhIds : BVH_timeout(r)
  \/ \E r \in BvhIds, deserialized \in BOOLEAN : BVH_then(r, deserialized)
  \/ \E r \in BvhIds : BVH_catch(r)
  \/ \E r \in BvhIds : BVH_returns(r)
  \/ BVH_onmessageerror
  \/ BVH_onerror
  \/ BVH_dispose

\* the event loop runs a timer that is due and every then-, catch- and
\* await-continuation; of the worker's replies nothing is assumed
BvhFairness ==
  \A r \in BvhIds :
    /\ WF_vars(BVH_timeout(r))
    /\ WF_vars(\E deserialized \in BOOLEAN : BVH_then(r, deserialized))
    /\ WF_vars(BVH_catch(r))
    /\ WF_vars(BVH_returns(r))

SpecBvhFair == InitBvh /\ [][NextBvhFair]_vars /\ BvhFairness

----------------------------------------------------------------------------
(* The loaders of ViewerApp: loadIfcFromBuffer and loadGlbFromBuffer.     *)
(* pc of a load: "awSel" and "awHov" at the awaits of clearSelection and  *)
(* clearHover, "dispose" at the await of a previous model's dispose,      *)
(* "disposeNext" when that await resumes, "provider" while ifcLoader.load *)
(* or GLTFLoader.parse runs, "bvh" while the bounds trees are built,      *)
(* "frame" at the awaits of projection.set and frameModel, "groups" in    *)
(* buildGroupsForModel, "tail" from there to the return.  The steps of    *)
(* the tail (applyVisibilityFromState, applyCutFromState, setActiveTool)  *)
(* are those of the visibility engine and the tool switch above; here     *)
(* they are one step.  ensureIfcPipeline is taken as set up.              *)

\* what no step of a load writes
ldUntouched == <<toolVars, selVars, hov, hlHover, measTool, rays,
                 measurementMode, cutVars, secVars, classVisibility,
                 storeyVisibility, hiderHidden, vis, cutApplyInFlight,
                 cutIgnoredClasses, loading, opsStarted, hlSelect,
                 clearOrphans, clr, selCalls, smEnabled, smMode, smInvert,
                 smActive, smArrayLen, smPlaneAxis, smPlaneOffset,
                 smLockRotation, smPlane, smBoxRaf, smBoxFrames, smChanges, mmInScene, mmNextId,
                 mmGiven, pfHistory, pfOutcome, bvhVars, csVars,
                 metaVars, toasts>>
ldSelection == <<selection, primarySelection, hasSelectHighlight, selectClearInFlight>>
ldHover == <<hoverRequestSerial, hovered, hasHoverHighlight,
             hoverClearInFlight>>
ldCleared == <<mmItems, mmGroup, mmDisposals, mmLive, measurements,
               coordinates, pf, pfCall, cutHidden, filteredOut>>
ldSection == <<smMaterials, smBoxPose, smBoxPlanes, matPlanes,
               matClipIntersection>>
ldReset == <<manualHidden, appliedHidden, visibilityForceFullApply,
             isolateActive, ldCaches>>
ldScene == <<sceneModels, fragList, glbRoot, ldDisposing, ldDisposeCalls,
             hasIfc>>

\* no load is in progress
NoLoadInProgress == \A l \in LdIds : ldCalls[l].pc = "idle"

\* the load call l has ended, by returning or by throwing
LoadEnded(l) == [ldCalls EXCEPT ![l] = IdleLoad]

\* the loop over fragments.list.values() of load l from its next iteration
\* on, the scene and the dispose counts being as the caller leaves them:
\* the next model not yet visited is removed from the scene and its
\* dispose() is called and awaited; after the last one the per-model caches
\* and the visibility bookkeeping are reset and the provider is started
DisposeLoop(l, scene, disposeCalls) ==
  LET todo == fragList \ ldCalls[l].visited IN
  IF todo # {}
    THEN LET m == CHOOSE x \in todo : \A y \in todo : x <= y IN
         /\ sceneModels' = scene \ {m}
         /\ ldDisposeCalls' = [disposeCalls EXCEPT ![m] = @ + 1]
         /\ ldDisposing' = ldDisposing \cup {m}
         /\ ldCalls' = [ldCalls EXCEPT ![l].pc = "dispose",
                                       ![l].cur = m,
                                       ![l].visited = @ \cup {m}]
         /\ UNCHANGED ldReset
    ELSE /\ sceneModels' = scene
         /\ ldDisposeCalls' = disposeCalls
         /\ ldCaches' = {}
         /\ manualHidden' = EmptyMap
         /\ appliedHidden' = EmptyMap
         /\ visibilityForceFullApply' = TRUE
         /\ isolateActive' = FALSE
         /\ ldCalls' = [ldCalls EXCEPT ![l].pc = "provider", ![l].cur = 0]
         /\ UNCHANGED ldDisposing

\* loadIfcFromBuffer / loadGlbFromBuffer up to `await this.clearSelection()`
LD_start(l, kind) ==
  /\ ~MicroPending
  /\ FirstIdle(ldCalls, l)
  /\ ldStarted < MaxLoadsStarted
  /\ ldStarted' = ldStarted + 1
  /\ storeLoading' = TRUE
  /\ ClearSelectionSync
  /\ ldCalls' = [ldCalls EXCEPT ![l] = [pc |-> "awSel", kind |-> kind,
                                        model |-> ldStarted + 1,
                                        visited |-> {}, cur |-> 0]]
  /\ UNCHANGED <<ldHover, ldCleared, ldSection, ldReset, ldScene>>
  /\ UNCHANGED ldUntouched

\* clearSelection has returned: up to `await this.clearHover()`
LD_selectionCleared(l) ==
  /\ ldCalls[l].pc = "awSel"
  /\ ~selectClearInFlight
  /\ ClearHoverSync
  /\ ldCalls' = [ldCalls EXCEPT ![l].pc = "awHov"]
  /\ UNCHANGED <<ldStarted, storeLoading, ldSelection, ldCleared, ldSection,
                 ldReset, ldScene>>
  /\ UNCHANGED ldUntouched

\* clearHover has returned: the measurements, the property filter and the
\* cut- and filter-derived hidden sets are cleared, the section materials
\* forgotten, the GLB root disposed, and the dispose loop is entered
LD_hoverCleared(l) ==
  /\ ldCalls[l].pc = "awHov"
  /\ ~hoverClearInFlight
  /\ MM_clearItems
  /\ measurements' = <<>>
  /\ coordinates' = NoKey
  /\ pf' = [pset |-> <<>>, property |-> <<>>, operator |-> "contains",
            value |-> <<>>, mode |-> "show", active |-> FALSE]
  /\ pfCall' = [kind |-> "none", input |-> <<>>]
  /\ cutHidden' = EmptyMap
  /\ filteredOut' = EmptyMap
  /\ smMaterials' = {}
  /\ glbRoot' = 0
  /\ DisposeLoop(l, sceneModels \ {glbRoot},
                 [m \in LdModels |->
                    IF m = glbRoot THEN ldDisposeCalls[m] + 1
                    ELSE ldDisposeCalls[m]])
  /\ UNCHANGED <<ldStarted, storeLoading, ldSelection, ldHover, smBoxPose,
                 smBoxPlanes, matPlanes, matClipIntersection, fragList,
                 hasIfc>>
  /\ UNCHANGED ldUntouched

\* model.dispose() of m takes the model out of fragments.list at some
\* point of its run
LD_disposeUnlists(m) ==
  /\ m \in ldDisposing
  /\ m \in fragList
  /\ fragList' = fragList \ {m}
  /\ hasIfc' = (fragList' # {})
  /\ UNCHANGED <<sceneModels, glbRoot, ldDisposing, ldDisposeCalls>>
  /\ UNCHANGED <<ldCalls, ldStarted, storeLoading, ldSelection, ldHover,
                 ldCleared, ldSection, ldReset>>
  /\ UNCHANGED ldUntouched

\* model.dispose() of m settles: the loads awaiting it resume
LD_disposeSettles(m) ==
  /\ ~MicroPending
  /\ m \in ldDisposing
  /\ ldDisposing' = ldDisposing \ {m}
  /\ fragList' = fragList \ {m}
  /\ hasIfc' = (fragList' # {})
  /\ ldCalls' = [l \in LdIds |->
                   IF ldCalls[l].pc = "dispose" /\ ldCalls[l].cur = m
                     THEN [ldCalls[l] EXCEPT !.pc = "disposeNext"]
                     ELSE ldCalls[l]]
  /\ UNCHANGED <<sceneModels, glbRoot, ldDisposeCalls>>
  /\ UNCHANGED <<ldStarted, storeLoading, ldSelection, ldHover, ldCleared,
                 ldSection, ldReset>>
  /\ UNCHANGED ldUntouched

\* the 12 s timer of settleOrWarn fires before the dispose awaited by l
LD_disposeTimesOut(l) ==
  /\ ~MicroPending
  /\ ldCalls[l].pc = "dispose"
  /\ ldCalls' = [ldCalls EXCEPT ![l].pc = "disposeNext"]
  /\ UNCHANGED <<ldStarted, storeLoading, ldSelection, ldHover, ldCleared,
                 ldSection, ldReset, ldScene>>
  /\ UNCHANGED ldUntouched

\* the await of settleOrWarn resumes: the next iteration of the loop
LD_disposeNext(l) ==
  /\ ldCalls[l].pc = "disposeNext"
  /\ DisposeLoop(l, sceneModels, ldDisposeCalls)
  /\ UNCHANGED <<fragList, glbRoot, hasIfc>>
  /\ UNCHANGED <<ldStarted, storeLoading, ldSelection, ldHover, ldCleared,
                 ldSection>>
  /\ UNCHANGED ldUntouched

\* ifcLoader.load / GLTFLoader.parse ends.  On success the IFC model joins
\* fragments.list and its object the scene; the GLB root joins the scene
\* and becomes glbRoot, the section box is reset to its bounds and its
\* materials are registered (finishGlbLoad).  On failure the load throws;
\* only loadGlbFromBuffer resets store.loading then.
LD_providerEnds(l, ok, pose) ==
  /\ ~MicroPending
  /\ ldCalls[l].pc = "provider"
  /\ IF ~ok
       THEN /\ ldCalls' = LoadEnded(l)
            /\ storeLoading' = (storeLoading /\ ldCalls[l].kind = "ifc")
            /\ UNCHANGED <<ldSection, ldScene>>
       ELSE IF ldCalls[l].kind = "ifc"
         THEN /\ fragList' = fragList \cup {ldCalls[l].model}
              /\ hasIfc' = TRUE
              /\ sceneModels' = sceneModels \cup {ldCalls[l].model}
              /\ ldCalls' = [ldCalls EXCEPT ![l].pc = "bvh"]
              /\ UNCHANGED <<storeLoading, glbRoot, ldDisposing,
                             ldDisposeCalls, ldSection>>
         ELSE /\ sceneModels' = sceneModels \cup {ldCalls[l].model}
              /\ glbRoot' = ldCalls[l].model
              /\ smBoxPose' = pose
              /\ UpdateBoxPlanes(pose, smInvert)
              /\ smMaterials' = smMaterials \cup Mats
              /\ ApplyToMaterials(smMaterials', smActive, smMode, smInvert)
              /\ ldCalls' = [ldCalls EXCEPT ![l].pc = "frame"]
              /\ UNCHANGED <<storeLoading, fragList, hasIfc, ldDisposing,
                             ldDisposeCalls>>
  /\ UNCHANGED <<ldStarted, ldSelection, ldHover, ldCleared, ldReset>>
  /\ UNCHANGED ldUntouched

\* bvh.buildForObject ends: the materials of the model are registered, or
\* the load throws
LD_bvhEnds(l, ok) ==
  /\ ~MicroPending
  /\ ldCalls[l].pc = "bvh"
  /\ IF ok
       THEN /\ smMaterials' = smMaterials \cup Mats
            /\ ApplyToMaterials(smMaterials', smActive, smMode, smInvert)
            /\ ldCalls' = [ldCalls EXCEPT ![l].pc = "frame"]
       ELSE /\ ldCalls' = LoadEnded(l)
            /\ UNCHANGED <<smMaterials, matPlanes, matClipIntersection>>
  /\ UNCHANGED <<ldStarted, storeLoading, ldSelection, ldHover, ldCleared,
                 smBoxPose, smBoxPlanes, ldReset, ldScene>>
  /\ UNCHANGED ldUntouched

\* projection.set and frameModel have ended
LD_framed(l) ==
  /\ ~MicroPending
  /\ ldCalls[l].pc = "frame"
  /\ ldCalls' = [ldCalls EXCEPT
                   ![l].pc = IF ldCalls[l].kind = "ifc" THEN "groups"
                             ELSE "tail"]
  /\ UNCHANGED <<ldStarted, storeLoading, ldSelection, ldHover, ldCleared,
                 ldSection, ldReset, ldScene>>
  /\ UNCHANGED ldUntouched

\* buildGroupsForModel ends: the caches hold the model's groups, boxes and
\* cut samples and the section box is reset to the model's bounds; or it
\* throws
LD_groupsBuilt(l, ok, pose) ==
  /\ ~MicroPending
  /\ ldCalls[l].pc = "groups"
  /\ IF ok
       THEN /\ ldCaches' = ldCaches \cup {ldCalls[l].model}
            /\ smBoxPose' = pose
            /\ UpdateBoxPlanes(pose, smInvert)
            /\ ApplyToMaterials(smMaterials, smActive, smMode, smInvert)
            /\ ldCalls' = [ldCalls EXCEPT ![l].pc = "tail"]
       ELSE /\ ldCalls' = LoadEnded(l)
            /\ UNCHANGED <<ldCaches, smBoxPose, smBoxPlanes, matPlanes,
                           matClipIntersection>>
  /\ UNCHANGED <<ldStarted, storeLoading, ldSelection, ldHover, ldCleared,
                 smMaterials, manualHidden, appliedHidden,
                 visibilityForceFullApply, isolateActive, ldScene>>
  /\ UNCHANGED ldUntouched

\* the load returns
LD_finishes(l) ==
  /\ ~MicroPending
  /\ ldCalls[l].pc = "tail"
  /\ ldCalls' = LoadEnded(l)
  /\ storeLoading' = FALSE
  /\ UNCHANGED <<ldStarted, ldSelection, ldHover, ldCleared, ldSection,
                 ldReset, ldScene>>
  /\ UNCHANGED ldUntouched

InitLoad ==
  /\ InitToolPart
  /\ InitHoverPart
  /\ InitMeasPart
  /\ InitCutPart
  /\ InitSys
  /\ InitVisPart
  /\ hasIfc = FALSE

NextLoad ==
  \/ \E l \in LdIds, kind \in {"ifc", "glb"} : LD_start(l, kind)
  \/ \E l \in LdIds : LD_selectionCleared(l)
  \/ \E l \in LdIds : LD_hoverCleared(l)
  \/ \E m \in LdModels : LD_disposeUnlists(m)
  \/ \E m \in LdModels : LD_disposeSettles(m)
  \/ \E l \in LdIds : LD_disposeTimesOut(l)
  \/ \E l \in LdIds : LD_disposeNext(l)
  \/ \E l \in LdIds, ok \in BOOLEAN : LD_providerEnds(l, ok, MaxPose)
  \/ \E l \in LdIds, ok \in BOOLEAN : LD_bvhEnds(l, ok)
  \/ \E l \in LdIds : LD_framed(l)
  \/ \E l \in LdIds, ok \in BOOLEAN : LD_groupsBuilt(l, ok, MaxPose)
  \/ \E l \in LdIds : LD_finishes(l)

SpecLoad == InitLoad /\ [][NextLoad]_vars

----------------------------------------------------------------------------
(* applyCutFromState as a function of the cut state and the cut samples *)

\* sample coordinates and offsets, and the classes a sample can carry
SampleCoords == 1..MaxSample
SampleRecords ==
  [sampleX : SampleCoords, sampleZ : SampleCoords,
   classId : ClassIds \cup {"none"}]
CutStates ==
  [enabled : BOOLEAN, orientation : {"horizontal", "vertical"},
   flip : BOOLEAN, offset : SampleCoords, ignoredClasses : SUBSET ClassIds]

\* applyCutFromState reads the cut state and computes the hidden map
CutComputed(cut) ==
  /\ csCut' = cut
  /\ csHidden' = CutHiddenFor(csSamples, cut.enabled, cut.orientation,
                              cut.flip, cut.offset, cut.ignoredClasses)
  /\ UNCHANGED <<csSamples, itemBoxes>>
  /\ UNCHANGED notCutSamples

InitCutPlane ==
  /\ InitToolPart
  /\ InitHoverPart
  /\ InitMeasPart
  /\ InitCutPart
  /\ InitVisPart
  /\ InitClearPart
  /\ InitSectionPart
  /\ InitMeasurementsPart
  /\ InitFilterPart
  /\ InitBvhPart
  /\ InitLoadPart
  /\ hasIfc = TRUE
  /\ csSamples \in [Elems -> SampleRecords]
  /\ csCut = InitialCut
  /\ csHidden = EmptyMap
  /\ itemBoxes = Elems

NextCutPlane == \E cut \in CutStates : CutComputed(cut)

SpecCutPlane == InitCutPlane /\ [][NextCutPlane]_vars

----------------------------------------------------------------------------
(* Properties of tool switching *)

EnabledTools == {t \in Registered : enabled[t]}

NoCallInProgress == \A c \in CallIds : calls[c].pc = "idle"

\* C1: at every moment at most one tool is enabled, and when no setActive
\* call is in progress the one enabled tool is ToolManager.active
C1_AtMostOneEnabled ==
  /\ Cardinality(EnabledTools) <= 1
  /\ NoCallInProgress => EnabledTools = {active}

\* C2: a call setActive(B) made while A is active invokes B.onEnable only
\* after A.onDisable completed, leaving A disabled and B enabled; it applies
\* B's cursor after B.onEnable completed; and when it returns, active is B
C2_SwitchInOrder ==
  [][\A c \in CallIds :
       /\ (calls[c].pc = "awDisable" /\ calls'[c].pc = "awEnable")
            => /\ ~enabled'[calls[c].from]
               /\ enabled'[calls[c].id]
       /\ (calls[c].pc = "awEnable" /\ calls'[c].pc = "afterSetActive")
            => /\ cursor' = ToolCursor(calls[c].id)
               /\ active' = calls[c].id]_vars

\* the transient state the hooks of the tools write
hookState == <<selVars, hover5, measVars, cutVars, secVars>>

\* C3: setActive(id) while the tool with that id is active invokes no hook
\* (no tool's enabled flag or transient state changes), sets no cursor and
\* leaves ToolManager.active as it is
C3_Idempotent ==
  [][\A c \in CallIds :
       (calls[c].pc = "idle" /\ calls'[c].pc # "idle" /\ calls'[c].id = active)
         => UNCHANGED <<active, enabled, cursor, hookState>>]_vars

\* a setActive call for the active tool has returned to setActiveTool
C3_Witness ==
  \E c \in CallIds :
    /\ calls[c].pc = "afterSetActive"
    /\ calls[c].from = "none"
    /\ calls[c].id = active
    /\ enabled[active]

\* C4: every forwarded event goes to the active tool, and that tool is
\* enabled: a tool whose onDisable was invoked and that was not re-enabled
\* receives no event, also while a switch is in progress
C4_EventsOnlyToEnabled ==
  [][evTick' # evTick => enabled[active]]_vars

----------------------------------------------------------------------------
(* Properties of the visibility engine *)

\* no visibility operation is in progress and the cut queue is empty
VisSettled ==
  /\ \A o \in VisIds : vis[o].pc = "idle"
  /\ ~cutApplyQueued /\ ~cutApplyRaf /\ ~cutApplyInFlight

\* the union of the five sources as they stand
SourcesUnion ==
  Flat(NextHideOf(classVisibility, storeyVisibility, manualHidden, cutHidden,
                  filteredOut))

\* C6: once the operations have settled (and no isolation is active) the
\* hider hides exactly the union of the five sources, as a full
\* recomputation would
C6_HiddenIsUnion ==
  (VisSettled /\ ~isolateActive) => hiderHidden = SourcesUnion

\* C7: a run of applyVisibilityFromState that takes the incremental path
\* asks the hider to show exactly appliedHidden minus the new set and to
\* hide exactly the new set minus appliedHidden, the hider's set changes by
\* just these, and at the end appliedHidden is the new set
C7_IncrementalDiff ==
  [][\A o \in VisIds :
       /\ (vis[o].pc \notin ApplyPcs /\ vis'[o].pc \in {"incShow", "incHide"})
            => /\ Flat(vis'[o].toShow) =
                    Flat(appliedHidden) \ Flat(vis'[o].nextHide)
               /\ Flat(vis'[o].toHide) =
                    Flat(vis'[o].nextHide) \ Flat(appliedHidden)
               /\ hiderHidden' = hiderHidden
       /\ (vis[o].pc = "incShow" /\ vis'[o].pc # "incShow")
            => hiderHidden' = hiderHidden \ Flat(vis[o].toShow)
       /\ (vis[o].pc = "incHide" /\ vis'[o].pc # "incHide")
            => hiderHidden' = hiderHidden \cup Flat(vis[o].toHide)
       /\ (vis[o].pc \in {"incShow", "incHide"} /\ vis'[o].pc = "ret")
            => appliedHidden' = vis[o].nextHide]_vars

\* an incremental run is showing one element while another stays hidden
C7_Witness ==
  \E o \in VisIds :
    /\ vis[o].pc = "incShow"
    /\ Flat(vis[o].toShow) # {}
    /\ Flat(vis[o].nextHide) # {}
    /\ Flat(vis[o].toShow) \cap Flat(vis[o].nextHide) = {}

\* C8: at no time are two executions of applyVisibilityFromState in progress
C8_Serialized ==
  Cardinality({o \in VisIds : vis[o].pc \in ApplyPcs}) <= 1

----------------------------------------------------------------------------
(* Properties of the cut queue *)

\* C9: applyCutFromState is never executing twice at the same time, whether
\* the cut queue or loadIfcFromBuffer started it
C9_SingleFlight ==
  Cardinality({o \in VisIds :
                 vis[o].pc \in ApplyPcs /\ vis[o].caller \in CutCallers}) <= 1

----------------------------------------------------------------------------
(* Properties of the hover coordinator *)

\* the hit-test of request h resolves in this step
HitTestResolves(h) ==
  hov[h].pc \in {"ray", "rayMicro"} /\ hov'[h].pc \notin {"ray", "rayMicro"}

\* C10: a hit-test that resolves with a captured serial that is no longer
\* hoverRequestSerial changes neither store.hovered nor the highlight and its
\* request ends; a hit-test that resolves with the current serial on a new
\* element makes that element store.hovered, so of two overlapping requests
\* only the later one is displayed
C10_StaleHoverDiscarded ==
  [][\A h \in HoverIds :
       HitTestResolves(h) =>
         IF hov[h].requestId # hoverRequestSerial
         THEN /\ hov'[h] = IdleHov
              /\ UNCHANGED <<hovered, hlHover, hasHoverHighlight,
                             hoverRequestSerial>>
         ELSE /\ hov'[h].pc = "hl" => hovered' = hov[h].key
              /\ \A g \in HoverIds :
                   (hov'[g].pc = "hl" /\ hov'[g].requestId = hoverRequestSerial')
                     => hovered' = hov'[g].key]_vars

\* two hit-tests overlap, the later one has resolved and is displayed, the
\* earlier one (on another element) has yet to resolve
C10_Witness ==
  \E h1, h2 \in HoverIds :
    /\ hov[h1].pc = "ray"
    /\ hov[h2].pc = "hl"
    /\ hov[h1].requestId < hov[h2].requestId
    /\ hov[h2].requestId = hoverRequestSerial
    /\ hov[h1].key # NoKey
    /\ hov[h1].key # hov[h2].key
    /\ hovered = hov[h2].key

----------------------------------------------------------------------------
(* Properties of the clear coalescers *)

\* highlighter.clear(style) calls that have not settled
HighlighterClears(style) ==
  (IF ClearInFlight(style) THEN 1 ELSE 0) + clearOrphans[style]

\* C11: at most one highlighter clear of the hover style and at most one of
\* the select style is in flight at any time
C11_OneClearInFlight ==
  \A style \in Styles : HighlighterClears(style) <= 1

----------------------------------------------------------------------------
(* Properties of the SectionManager *)

\* C12: exactly one of no-clipping, plane mode and box mode governs the
\* active planes: activePlanes is the empty array exactly when clipping is
\* disabled, the one-plane array exactly when enabled in plane mode, the
\* six-plane array exactly when enabled in box mode, and the three arrays
\* keep their lengths 0, 1 and 6
C12_OneModeGoverns ==
  /\ smActive = "none" <=> ~smEnabled
  /\ smActive = "plane" <=> (smEnabled /\ smMode = "plane")
  /\ smActive = "box" <=> (smEnabled /\ smMode = "box")
  /\ smArrayLen["none"] = 0
  /\ smArrayLen["plane"] = 1
  /\ smArrayLen["box"] = 6

\* clipping is on in plane mode, inverted, after a change of mode
C12_Witness ==
  /\ smEnabled /\ smMode = "plane" /\ smInvert
  /\ smActive = "plane"
  /\ smMaterials # {}

\* C13: every registered material carries the current clip state: its
\* clippingPlanes is null when the active array is empty and the active array
\* otherwise, and its clipIntersection is true exactly when the mode is box
\* and invert is set, the invert the box planes were computed with
C13_MaterialsCarryClipState ==
  \A m \in smMaterials :
    /\ matPlanes[m] = (IF smArrayLen[smActive] = 0 THEN "null" ELSE smActive)
    /\ matClipIntersection[m] = (smMode = "box" /\ smInvert)
    /\ matClipIntersection[m] => smBoxPlanes.invert

\* a registered material clips inside the inverted box, and another setter
\* has run in plane mode with invert set before
C13_Witness ==
  \E m \in smMaterials :
    /\ matClipIntersection[m]
    /\ matPlanes[m] = "box"
    /\ smPlane.invert
    /\ smPlaneAxis # "z"

----------------------------------------------------------------------------
(* Properties of the MeasurementManager *)

\* what list() has to return: the ids added and not since removed or
\* cleared, with the points given to add and their distance
MM_expected ==
  {[id |-> i, start |-> mmGiven[i].start, end |-> mmGiven[i].end,
    meters |-> DistanceTo(mmGiven[i].start, mmGiven[i].end)] :
     i \in mmLive}

\* C16: after any sequence of add, remove and clear, list() returns exactly
\* the ids added and not since removed or cleared, each with the points
\* given to add and the distance between them; remove(id) takes id out of
\* list(), and remove of an id that is not stored changes nothing.
C16_ListIsAddedNotRemoved ==
  /\ [](MM_list = MM_expected)
  /\ [][\A id \in MmIds :
          MM_remove(id) =>
            /\ id \notin DOMAIN mmItems'
            /\ (id \notin DOMAIN mmItems =>
                  UNCHANGED <<mmItems, mmGroup, mmDisposals>>)]_vars

\* one measurement is listed after another one was removed
C16_Witness ==
  /\ mmLive # {}
  /\ \E i \in DOMAIN mmGiven : i \notin mmLive

\* C17: the visuals of every measurement id are disposed exactly once, when
\* the id is removed, and the Measurements group holds exactly the visuals
\* of the ids stored.
C17_DisposedOnceGroupExact ==
  /\ \A i \in MmIds :
       mmDisposals[i] =
         IF i \in DOMAIN mmGiven /\ i \notin DOMAIN mmItems THEN 1 ELSE 0
  /\ mmGroup = {<<i, part>> : i \in DOMAIN mmItems, part \in MmParts}

\* the manager was disposed with a measurement stored, and one was added
\* after that
C17_Witness ==
  /\ ~mmInScene
  /\ \E i \in MmIds : mmDisposals[i] = 1
  /\ DOMAIN mmItems # {}

----------------------------------------------------------------------------
(* Properties of the property filter's export and import *)

\* the five exported fields of a filter
Exported(filter) == [key \in FilterKeySet |-> filter[key]]

\* C18: for every filter the store can hold, the exported text parses to
\* an object whose five fields pass the import's validation with the stored
\* values, and importPropertyFilterJson(exportPropertyFilterJson()) succeeds
\* and leaves the property filter, the active flag included, as it was.
C18_ExportImportRoundTrip ==
  /\ [](NextOf(JsonParse(ExportPropertyFilterJson(pf))) = Exported(pf))
  /\ [][pfCall'.kind = "roundTrip" => (pf' = pf /\ pfOutcome' = "ok")]_vars

\* an active filter whose pset holds a backslash and a quote went through
\* the round trip
C18_Witness ==
  /\ pfCall.kind = "roundTrip"
  /\ pf.active
  /\ pf.pset = <<"\\", "\"">>
  /\ pf.operator = "not_equals"

\* what the store holds under key once value was imported into filter
StoredGood(key) ==
  CASE key = "operator" -> "gte"
    [] key = "mode" -> "colorize"
    [] OTHER -> GoodValue(key).v

ExpectedAfterImport(filter, value) ==
  [key \in DOMAIN filter |->
     IF /\ key \in FilterKeySet
        /\ value.t = "obj"
        /\ Text(key) \in DOMAIN value.f
        /\ value.f[Text(key)] = GoodValue(key)
       THEN StoredGood(key)
       ELSE filter[key]]

----------------------------------------------------------------------------
(* Properties of the BvhManager *)

\* C20: once the worker is disabled it stays disabled: no worker exists or
\* is constructed again, no request is or becomes pending, every request
\* pending when the worker was disabled has been rejected, and every
\* buildGeometryBVH call started later builds locally.
C20_DisabledForGood ==
  /\ [](bvhDisabled =>
          /\ ~bvhWorker
          /\ bvhPending = {}
          /\ \A r \in BvhIds : bvhReq[r].pc # "waiting")
  /\ [][bvhDisabled =>
          /\ bvhDisabled'
          /\ bvhCreated' = bvhCreated
          /\ \A r \in BvhIds :
               bvhReq[r].pc = "idle" /\ bvhReq'[r].pc # "idle" =>
                 bvhReq'[r].path # "worker"]_vars
  /\ [][~bvhDisabled /\ bvhDisabled' =>
          \A r \in bvhPending :
            bvhReq[r].pc = "waiting" => bvhReq'[r].pc \in {"rejected", "done"}]_vars

\* the worker was disabled with a request pending, and a call made after
\* that has built locally while the rejected one is still to be handled
C20_Witness ==
  /\ bvhDisabled
  /\ bvhCreated = 1
  /\ \E r, q \in BvhIds :
       /\ bvhReq[r].pc = "rejected"
       /\ bvhReq[q].pc = "done"
       /\ bvhReq[q].path = "local"

----------------------------------------------------------------------------
(* Properties of the loaders *)

\* C14: whenever no load is in progress, at most one model is a child of
\* the scene.
C14_AtMostOneModel ==
  NoLoadInProgress => Cardinality(sceneModels) <= 1

\* the pcs of a load after its dispose loop
AfterDisposeLoop == {"provider", "bvh", "frame", "groups", "tail"}

\* C15: a load that has cleared the caches and started the provider has
\* finished the dispose of every previous model it visited, and no model's
\* dispose is called more than once.
C15_StepsInOrder ==
  /\ \A l \in LdIds :
       ldCalls[l].pc \in AfterDisposeLoop =>
         ldCalls[l].visited \cap ldDisposing = {}
  /\ \A m \in LdModels : ldDisposeCalls[m] <= 1

----------------------------------------------------------------------------
(* Properties of isolation and of unhide-all *)

\* every operation slot but o is idle
OthersIdle(o) == \A q \in VisIds \ {o} : vis[q].pc = "idle"

\* C21: while isolation is active a call of applyVisibilityFromState issues
\* no hider operation and leaves appliedHidden as it is; and when the
\* applyVisibilityFromState run of restoreIsolation has ended with nothing
\* else in progress, the hider hides exactly the union of the five sources
\* as they stand
C21_IsolateBypassAndRestore ==
  [][\A o \in VisIds :
       /\ (/\ isolateActive /\ isolateActive'
           /\ vis[o].pc \notin ApplyPcs \cup {"isoGet", "isoIsolate", "unhide"}
           /\ vis'[o] # vis[o])
            => /\ vis'[o].pc \notin ApplyPcs
               /\ UNCHANGED <<hiderHidden, appliedHidden>>
       /\ (/\ vis'[o].caller = "restore" /\ vis'[o].pc = "ret"
           /\ vis[o].pc # "ret"
           /\ OthersIdle(o)')
            => hiderHidden' = SourcesUnion']_vars

\* C22: when unhideAll has settled, manualHidden, cutHidden, filteredOut and
\* appliedHidden are empty, every class and storey visibility flag is true,
\* isolation is inactive and the hider hides no element of the loaded model
C22_UnhideAllClears ==
  [][\A o \in VisIds :
       (vis[o].pc = "unhide" /\ vis'[o].pc # "unhide")
         => /\ manualHidden' = EmptyMap
            /\ cutHidden' = EmptyMap
            /\ filteredOut' = EmptyMap
            /\ appliedHidden' = EmptyMap
            /\ \A c \in ClassIds : classVisibility'[c]
            /\ \A st \in StoreyIds : storeyVisibility'[st]
            /\ ~isolateActive'
            /\ hiderHidden' = {}]_vars

\* unhideAll has settled with the cut switched on: the cut state still
\* hides an element, cutHidden is empty and nothing is in progress
C22_Witness ==
  /\ VisSettled
  /\ cutEnabled
  /\ CutHiddenOf(cutEnabled, cutOrientation, cutFlip, cutOffset,
                 cutIgnoredClasses) # EmptyMap
  /\ cutHidden = EmptyMap
  /\ manualHidden = EmptyMap
  /\ hiderHidden = {}

----------------------------------------------------------------------------
(* Properties of the cut computation *)

\* the coordinate of sample e the cut compares: Z for a horizontal cut,
\* X for a vertical one
CutCoord(e) ==
  IF csCut.orientation = "horizontal" THEN csSamples[e].sampleZ
  ELSE csSamples[e].sampleX

\* C23: with the cut enabled, applyCutFromState hides an element exactly
\* when its class is not ignored and its sample coordinate is strictly
\* below the offset (flip false) or strictly above it (flip true); at
\* offset 2 a sample at 1 is hidden only without flip, a sample at 3 only
\* with flip, and a sample at 2 under neither
C23_CutHidesStrictSide ==
  csCut.enabled =>
    \A e \in Elems :
      LET hidden == e \in Flat(csHidden)
          ignored == csSamples[e].classId \in csCut.ignoredClasses
      IN /\ hidden <=>
              /\ ~ignored
              /\ IF csCut.flip THEN CutCoord(e) > csCut.offset
                 ELSE CutCoord(e) < csCut.offset
         /\ (csCut.offset = 2 /\ ~ignored) =>
              /\ CutCoord(e) = 1 => (hidden <=> ~csCut.flip)
              /\ CutCoord(e) = 3 => (hidden <=> csCut.flip)
              /\ CutCoord(e) = 2 => ~hidden

\* a horizontal cut at offset 2 without flip hides the element sampled at 1
\* and shows the one sampled at 3
C23_Witness ==
  /\ csCut.enabled /\ ~csCut.flip
  /\ csCut.offset = 2 /\ csCut.orientation = "horizontal"
  /\ csCut.ignoredClasses = {}
  /\ \E a, b \in Elems :
       /\ csSamples[a].sampleZ = 1
       /\ csSamples[b].sampleZ = 3
       /\ csHidden = [k \in ModelIds |-> {a}]

----------------------------------------------------------------------------
(* Properties of the derived ModelIdMaps *)

\* C24: none of manualHidden, cutHidden, filteredOut, appliedHidden and the
\* store's selection holds a model id whose set of local ids is empty
C24_NoEmptyEntry ==
  \A map \in {manualHidden, cutHidden, filteredOut, appliedHidden,
              rawToModelIdMap(selection)} :
    \A k \in DOMAIN map : map[k] # {}

----------------------------------------------------------------------------
(* Properties of the cut queue under fair scheduling *)

\* nothing queued, no animation-frame callback pending, nothing in flight
CutQueueIdle == ~cutApplyQueued /\ ~cutApplyRaf /\ ~cutApplyInFlight

\* no load is at its tail and no run of applyCutFromState is in progress
NoCutRun == ~loading /\ \A o \in VisIds : vis[o].pc = "idle"

\* the hidden map the store's cut state yields over the cached samples
CutOfState ==
  CutHiddenOf(cutEnabled, cutOrientation, cutFlip, cutOffset,
              cutIgnoredClasses)

\* C25: a request queued by queueApplyCut while the app is not disposed is
\* eventually taken by a run of applyCutFromState, the queued flag being
\* cleared only by the start of such a run; and once the cut queue is idle
\* and no run is in progress, cutHidden is the map of the current cut state
C25_QueuedCutRuns ==
  /\ (cutApplyQueued /\ ~disposed) ~> (~cutApplyQueued \/ disposed)
  /\ [][(cutApplyQueued /\ ~cutApplyQueued')
          => \E o \in VisIds :
               /\ vis'[o].caller = "cutQueue"
               /\ vis'[o].pc \in ApplyPcs \cup {"ret", "cutYield"}]_vars
  /\ []((CutQueueIdle /\ NoCutRun) => cutHidden = CutOfState)

----------------------------------------------------------------------------
(* Properties of the box-plane update of the SectionManager *)

\* C26: the "change" events received between two animation frames leave at
\* most one callback of queueBoxPlaneUpdate pending; a change event calls
\* updateBoxPlanes not itself, and schedules nothing while clipping is off
\* or the mode is not box; the callback makes the one updateBoxPlanes call,
\* from the box transform as it is at that frame
C26_BoxUpdateCoalesced ==
  /\ [](/\ smBoxFrames <= 1
        /\ smBoxRaf <=> smBoxFrames = 1
        /\ smChanges > 0 => smBoxFrames = 1)
  /\ [][\A pose \in Poses :
          SM_controlsChange(pose) =>
            /\ smBoxPlanes' = smBoxPlanes
            /\ ~(smEnabled /\ smMode = "box")
                 => UNCHANGED <<smBoxRaf, smBoxFrames>>]_vars
  /\ [][SM_boxPlaneRaf =>
          /\ smBoxFrames' = 0
          /\ smBoxPlanes' = [pose |-> smBoxPose, invert |-> smInvert]]_vars

\* two change events have arrived since the last frame, one callback is
\* pending and the planes are still those of the former pose
C26_Witness ==
  /\ smChanges = 2
  /\ smBoxFrames = 1
  /\ smBoxRaf
  /\ smBoxPose # smBoxPlanes.pose

----------------------------------------------------------------------------
(* Properties of the measure tool *)

\* the hit-test of the pointer-down in slot r resolves in this step
DownResolves(r) ==
  rays[r].pc \in {"down", "downMicro"} /\ rays'[r].pc \notin {"down", "downMicro"}

\* C27: in point or laser mode a primary-button pointer-down whose hit-test
\* finds a surface sets the pending start and adds no measurement when no
\* start is pending, and otherwise adds exactly one measurement from the
\* pending start to the hit and resets the pending start; without a hit
\* both stay as they are, and no other step (a pointer-down with another
\* button, one that has not resolved) changes the measurement list or,
\* short of a tool being switched on or off, the pending start
C27_TwoClickMachine ==
  /\ [][\A r \in RayIds :
          (DownResolves(r) /\ rays[r].mode \in {"point", "laser"}) =>
            LET hit == RaycastHit(rays[r].target)
            IN IF hit = NoKey
               THEN UNCHANGED <<mStart, measurements>>
               ELSE IF mStart = NoKey
               THEN mStart' = hit /\ UNCHANGED measurements
               ELSE /\ measurements' =
                         Append(measurements,
                                [start |-> mStart, end |-> hit,
                                 mode |-> rays[r].mode])
                    /\ mStart' = NoKey]_vars
  /\ [][/\ measurements' # measurements => \E r \in RayIds : DownResolves(r)
        /\ mStart' # mStart =>
             \/ \E r \in RayIds : DownResolves(r)
             \/ enabled' # enabled]_vars

\* a second click in point or laser mode has made a measurement between two
\* different points and no start is pending
C27_Witness ==
  /\ Len(measurements) = 1
  /\ measurements[1].mode \in {"point", "laser"}
  /\ measurements[1].start # measurements[1].end
  /\ mStart = NoKey

\* the await of measureShortestDistanceBetween in slot r returns in this step
ShortestReturns(r) == rays[r].pc = "shortestRet" /\ rays'[r].pc = "idle"

\* C28: a shortest-distance request between two elements of which one has
\* no cached box adds no measurement and shows the error notification, the
\* call returns (it does not throw), and the tool then clears its pending
\* first pick, so that the next pick is the first of a new pair
C28_MissingBoundsReported ==
  /\ [][\A r \in RayIds :
          (DownResolves(r) /\ rays[r].mode = "shortest"
             /\ RaycastHit(rays[r].target) # NoKey)
            => IF mShortestFrom = NoKey
               THEN /\ mShortestFrom' = RaycastHit(rays[r].target)
                    /\ UNCHANGED <<measurements, toasts>>
               ELSE /\ rays'[r].pc = "shortestRet"
                    /\ ({mShortestFrom, RaycastHit(rays[r].target)}
                          \ itemBoxes # {})
                         => /\ measurements' = measurements
                            /\ "Shortest distance unavailable" \in toasts']_vars
  /\ [][\A r \in RayIds :
          ShortestReturns(r) =>
            /\ mShortestFrom' = NoKey
            /\ UNCHANGED <<measurements, toasts>>]_vars

\* the second pick of a pair met a missing box: the error was shown, no
\* measurement exists and the first pick has been cleared
C28_Witness ==
  /\ "Shortest distance unavailable" \in toasts
  /\ measurements = <<>>
  /\ mShortestFrom = NoKey
  /\ measurementMode = "shortest"
  /\ itemBoxes # Elems
  /\ \A r \in RayIds : rays[r].pc = "idle"

\* call r of buildGeometryBVH has not settled
BvhUnsettled(r) == bvhReq[r].pc \in {"waiting", "resolved", "rejected"}

\* C29: every buildGeometryBVH call settles, and by resolving: a call that
\* waits for the worker is in the end fulfilled, whatever the worker does;
\* a rejection inside (error reply, timeout, crash, dispose) is always
\* caught by the local build; and a call fulfilled otherwise than by a
\* success reply has disabled the worker and its geometry has a bounds tree
C29_EveryBuildResolves ==
  /\ \A r \in BvhIds : BvhUnsettled(r) ~> (bvhReq[r].pc = "done")
  /\ [][\A r \in BvhIds :
          /\ (bvhReq[r].pc = "rejected" /\ bvhReq'[r] # bvhReq[r])
               => bvhReq'[r].pc = "done" /\ bvhReq'[r].path = "local"
          /\ (bvhReq[r].pc = "resolved" /\ bvhReq'[r] # bvhReq[r])
               => bvhReq'[r].pc = "done"
          /\ (bvhReq[r].pc # "done" /\ bvhReq'[r].pc = "done")
               => /\ bvhReq'[r].geom \in bvhBuilt'
                  /\ bvhReq'[r].path = "worker" => bvhReq[r].pc = "resolved"
                  /\ bvhReq'[r].path = "local" => bvhDisabled']_vars

\* one call has been fulfilled by the local build with the worker disabled,
\* while the request of the other, rejected with it, is about to be caught
C29_Witness ==
  \E r \in BvhIds, q \in BvhIds :
    /\ bvhReq[r].pc = "done"
    /\ bvhReq[r].path = "local"
    /\ bvhReq[r].geom \in bvhBuilt
    /\ bvhReq[q].pc = "rejected"
    /\ bvhReq[q].geom \notin bvhBuilt
    /\ bvhDisabled

----------------------------------------------------------------------------
(* The cut-derived hidden set as a function of the cut state *)

\* C30: whenever an IFC model is loaded, the cut queue is idle and no run of
\* applyCutFromState is in progress, cutHidden is the map computed from the
\* store's cut state over the cached samples, and it is empty exactly when
\* that computation hides no element
C30_CutHiddenIsFunctionOfCut ==
  (hasIfc /\ GroupsBuilt /\ CutQueueIdle /\ NoCutRun)
    => /\ cutHidden = CutOfState
       /\ (cutHidden = EmptyMap) <=> (CutOfState = EmptyMap)

----------------------------------------------------------------------------
(* Properties of the select tool's pointer handling *)

\* request h of hoverFromPointerEvent starts in this step
HoverStarts(h) == hov[h].pc = "idle" /\ hov'[h].pc # "idle"

\* C31: the select tool starts no hover hit-test while a button-held move
\* is in progress; a hit-test is started by the one pending animation-frame
\* callback only, for the last move event recorded with no button held;
\* and the hover is cleared by the first button-held move, not by the ones
\* that follow it
C31_HoverThrottled ==
  /\ [][\A h \in HoverIds :
          HoverStarts(h) =>
            /\ ~selHoverSuspended
            /\ selRaf /\ ~selRaf'
            /\ selLastMoveEv # NoEv
            /\ hov'[h].key = selLastMoveEv
            /\ selLastMoveEv' = NoEv]_vars
  /\ [][(evTick' # evTick /\ selHoverSuspended') =>
          IF selHoverSuspended
          THEN UNCHANGED <<hover5, hov>>
          ELSE /\ hovered' = NoKey
               /\ hoverRequestSerial' = hoverRequestSerial + 1
               /\ UNCHANGED hov]_vars

\* the hit-test of click q resolves in this step
ClickResolves(q) == selCalls[q].pc = "ray" /\ selCalls'[q].pc # "ray"

\* C32: when the hit-test of a committed click resolves to element e, the
\* selection becomes {e} if the shift key was not held at pointer-down, and
\* otherwise e alone changes its membership; toggling off the last element
\* goes through clearSelection. A primary pointer-up starts such a click
\* exactly when a pointer-down is recorded and lies within 5 px, carrying
\* that pointer-down's modifier; no pointer-up changes the selection itself
C32_ClickSelects ==
  /\ [][\A q \in SelIds :
          (ClickResolves(q) /\ RaycastHit(selCalls[q].key) # NoKey) =>
            LET e == RaycastHit(selCalls[q].key)
            IN /\ ~selCalls[q].multi => selection' = {e}
               /\ selCalls[q].multi =>
                    /\ (e \in selection') # (e \in selection)
                    /\ selection' \ {e} = selection \ {e}
               /\ (selCalls[q].multi /\ selection = {e}) =>
                    /\ selection' = {}
                    /\ selCalls'[q].pc \in {"awClear", "awClearExt"}]_vars
  /\ [][\A q \in SelIds, button \in {0, 2}, x \in ClickCoords,
           y \in ClickCoords, target \in Targets :
          (evTick' # evTick /\ PointerUpEffect(q, button, x, y, target)) =>
            /\ selection' = selection
            /\ IF /\ button = 0
                  /\ selPointerDown.set
                  /\ (x - selPointerDown.x) * (x - selPointerDown.x)
                       + (y - selPointerDown.y) * (y - selPointerDown.y) <= 25
               THEN /\ selCalls'[q].pc = "ray"
                    /\ selCalls'[q].key = target
                    /\ selCalls'[q].multi = selPointerDown.multi
               ELSE selCalls' = selCalls]_vars

\* both elements are selected, the second by a shift-click, and highlighted
C32_Witness ==
  /\ selection = Elems
  /\ hlSelect = Elems
  /\ selPointerDown = NoDown
  /\ \A q \in SelIds : selCalls[q].pc = "idle"

----------------------------------------------------------------------------
(* Properties of the hover and the select highlight together *)

\* no hover request, selection call or highlighter clear is under way
HighlightsSettled ==
  /\ \A h \in HoverIds : hov[h].pc = "idle"
  /\ \A q \in SelIds : selCalls[q].pc = "idle"
  /\ \A k \in ClrIds : clr[k].pc = "idle"
  /\ ~hoverClearInFlight /\ ~selectClearInFlight
  /\ \A st \in Styles : clearOrphans[st] = 0
  /\ ~selRaf

\* C33: once the hover and the select operations have settled, no element
\* carries the hover highlight and the select highlight together
C33_NoDoubleHighlight ==
  HighlightsSettled => hlHover \cap hlSelect = {}

----------------------------------------------------------------------------
(* Properties of the cut tool's drag *)

----------------------------------------------------------------------------
(* The store's activeTool and the tool manager *)

\* C35: once every setActiveTool call has settled, by returning or by
\* throwing, the store's activeTool is the id of the tool manager's active
\* tool
C35_StoreAgreesWithManager ==
  (\A c \in CallIds : calls[c].pc = "idle") => storeActiveTool = active

\* C36: whenever no hover request and no hover clear is in flight, the
\* highlighter shows a hover highlight only if hasHoverHighlight is set and
\* the store's hovered element is not null
C36_NoOrphanHoverHighlight ==
  (/\ \A h \in HoverIds : hov[h].pc = "idle"
   /\ \A k \in ClrIds : clr[k].pc = "idle"
   /\ ~hoverClearInFlight
   /\ clearOrphans["hover"] = 0)
    => (hlHover # {} => hasHoverHighlight /\ hovered # NoKey)

----------------------------------------------------------------------------
(* The primary selection *)

\* C37: a primary selection that is not null is a member of the selection
C37_PrimaryIsSelected ==
  primarySelection # NoKey => primarySelection \in selection

----------------------------------------------------------------------------
(* The three records of a measurement: the MeasurementManager's items, the *)
(* ViewerApp's measurementMeta and the store's list.                       *)

\* syncMeasurementsFromScene: one store entry per listed item, in the order
\* of the items map (the order the ids were given in), the mode from the
\* meta map or "point"
SyncMeasurementsFromScene(items, meta) ==
  LET ids == DOMAIN items
      n == Cardinality(ids)
      ord == CHOOSE f \in [1..n -> ids] :
               \A i, j \in 1..n : i < j => f[i] < f[j]
  IN [k \in 1..n |->
        [id |-> ord[k], start |-> items[ord[k]].start,
         end |-> items[ord[k]].end,
         mode |-> IF ord[k] \in DOMAIN meta THEN meta[ord[k]]
                  ELSE "point"]]

\* what the three measurement handlers of the ViewerApp leave alone
notMeasured == <<toolVars, selVars, hasIfc, hoverVars, selection,
                 primarySelection, measTool, rays, measurementMode,
                 coordinates, toasts, cutVars, secVars, engineVars,
                 clearVars, smVars, pfVars, bvhVars, ldVars, csVars>>

\* ViewerApp.addDistanceMeasurement with the manager's add, the meta entry
\* and the store sync
VA_addDistanceMeasurement(start, end, mode) ==
  /\ mmNextId <= MaxMmIds
  /\ LET id == mmNextId
         it == [start |-> start, end |-> end] IN
       /\ mmItems' = [i \in (DOMAIN mmItems) \cup {id} |->
                        IF i = id THEN it ELSE mmItems[i]]
       /\ mmGroup' = mmGroup \cup {<<id, part>> : part \in MmParts}
       /\ mmGiven' = [i \in (DOMAIN mmGiven) \cup {id} |->
                        IF i = id THEN it ELSE mmGiven[i]]
       /\ mmLive' = mmLive \cup {id}
       /\ measurementMeta' = [i \in (DOMAIN measurementMeta) \cup {id} |->
                                IF i = id THEN mode ELSE measurementMeta[i]]
  /\ mmNextId' = mmNextId + 1
  /\ measurements' = SyncMeasurementsFromScene(mmItems', measurementMeta')
  /\ UNCHANGED <<mmInScene, mmDisposals>>
  /\ UNCHANGED notMeasured

\* ViewerApp.removeMeasurement: the manager, the meta map and the store
VA_removeMeasurement(id) ==
  /\ MM_removeEach({id})
  /\ mmLive' = mmLive \ {id}
  /\ measurementMeta' = [i \in (DOMAIN measurementMeta) \ {id} |->
                           measurementMeta[i]]
  /\ measurements' = SelectSeq(measurements, LAMBDA m : m.id # id)
  /\ UNCHANGED <<mmInScene, mmNextId, mmGiven>>
  /\ UNCHANGED notMeasured

\* ViewerApp.clearMeasurements, which reset calls too
VA_clearMeasurements ==
  /\ MM_clearItems
  /\ measurementMeta' = [i \in {} |-> "point"]
  /\ measurements' = <<>>
  /\ UNCHANGED mmInScene
  /\ UNCHANGED notMeasured

\* one load at a time here: the loads follow one another
MetaLoad == CHOOSE l \in LdIds : \A k \in LdIds : l <= k

NextMeta ==
  \/ \E mode \in {"point", "shortest"} :
       VA_addDistanceMeasurement(<<0, 0>>, <<1, 0>>, mode)
  \/ \E id \in MmIds : VA_removeMeasurement(id)
  \/ VA_clearMeasurements
  \/ \E kind \in {"ifc", "glb"} : LD_start(MetaLoad, kind)
  \/ LD_selectionCleared(MetaLoad)
  \/ LD_hoverCleared(MetaLoad)
  \/ \E m \in LdModels : LD_disposeUnlists(m)
  \/ \E m \in LdModels : LD_disposeSettles(m)
  \/ LD_disposeTimesOut(MetaLoad)
  \/ LD_disposeNext(MetaLoad)
  \/ \E ok \in BOOLEAN : LD_providerEnds(MetaLoad, ok, MaxPose)
  \/ \E ok \in BOOLEAN : LD_bvhEnds(MetaLoad, ok)
  \/ LD_framed(MetaLoad)
  \/ \E ok \in BOOLEAN : LD_groupsBuilt(MetaLoad, ok, MaxPose)
  \/ LD_finishes(MetaLoad)

SpecMeta == InitLoad /\ [][NextMeta]_vars

ListedIds == {m.id : m \in MM_list}
MetaKeys == DOMAIN measurementMeta
StoreIds == {measurements[k].id : k \in DOMAIN measurements}

\* C38: the ids the MeasurementManager lists, the keys of measurementMeta
\* and the ids of store.measurements are one set in every state that adds,
\* removals, clears and model loads reach
C38_MeasurementRecordsAgree ==
  /\ ListedIds = MetaKeys
  /\ MetaKeys = StoreIds

\* C39: a load that settles, by returning or by throwing at any step,
\* leaves store.loading.active false
C39_LoadingEndsWithLoad ==
  [][\A l \in LdIds :
       ldCalls[l].pc # "idle" /\ ldCalls'[l].pc = "idle"
         => ~storeLoading']_vars

----------------------------------------------------------------------------
(* The single-plane cut and the section box of a GLB model: both drive    *)
(* the one SectionManager.  A handler of the ViewerApp makes several      *)
(* SectionManager calls in a row, so the manager is a record here and     *)
(* each call a function of it.                                             *)

\* the fields of the SectionManager that its setters write
SmNow ==
  [enabled |-> smEnabled, mode |-> smMode, invert |-> smInvert,
   active |-> smActive, axis |-> smPlaneAxis, offset |-> smPlaneOffset,
   plane |-> smPlane, boxPlanes |-> smBoxPlanes, matPlanes |-> matPlanes,
   clip |-> matClipIntersection]

\* rebuildPlanes on the record
SmRebuild(s) ==
  [s EXCEPT
     !.boxPlanes = IF s.mode = "box"
                   THEN [pose |-> smBoxPose, invert |-> s.invert] ELSE @,
     !.plane = IF s.mode = "box" THEN @
               ELSE [axis |-> s.axis, offset |-> s.offset,
                     invert |-> s.invert],
     !.active = ActiveAfterRebuild(s.enabled, s.mode)]

\* applyToMaterials on the record
SmApply(s) ==
  LET planes == IF smArrayLen[s.active] > 0 THEN s.active ELSE "null"
  IN [s EXCEPT
        !.matPlanes = [m \in Mats |->
                         IF m \in smMaterials THEN planes
                         ELSE s.matPlanes[m]],
        !.clip = [m \in Mats |->
                    IF m \in smMaterials
                    THEN ClipIntersectionOf(s.mode, s.invert)
                    ELSE s.clip[m]]]

SmSetEnabled(s, en) ==
  IF s.enabled = en THEN s
  ELSE SmApply(SmRebuild([s EXCEPT !.enabled = en]))

SmSetMode(s, mode) ==
  IF s.mode = mode THEN s
  ELSE SmApply(SmRebuild([s EXCEPT !.mode = mode]))

SmSetInvert(s, invert) ==
  IF s.invert = invert THEN s
  ELSE SmApply(SmRebuild([s EXCEPT !.invert = invert]))

SmSetPlaneAxis(s, axis) ==
  IF s.axis = axis THEN s
  ELSE SmApply(SmRebuild(
         [s EXCEPT !.axis = axis,
                   !.plane = [axis |-> axis, offset |-> s.offset,
                              invert |-> s.invert]]))

SmSetPlaneOffset(s, offset) ==
  LET t == [s EXCEPT !.offset = offset,
                     !.plane = [axis |-> s.axis, offset |-> offset,
                                invert |-> s.invert]]
  IN IF t.enabled /\ t.mode = "plane" THEN SmApply(SmRebuild(t)) ELSE t

\* the manager becomes what the record says
SmAssign(s) ==
  /\ smEnabled' = s.enabled
  /\ smMode' = s.mode
  /\ smInvert' = s.invert
  /\ smActive' = s.active
  /\ smPlaneAxis' = s.axis
  /\ smPlaneOffset' = s.offset
  /\ smPlane' = s.plane
  /\ smBoxPlanes' = s.boxPlanes
  /\ matPlanes' = s.matPlanes
  /\ matClipIntersection' = s.clip

\* applyGlbCutFromState below its glbRoot test: the section box has
\* priority, then the cut off, then the single plane from the cut state
ApplyGlbCutFromState(s) ==
  IF sectionEnabled
  THEN SmSetEnabled(SmSetInvert(SmSetMode(s, "box"), sectionInvert), TRUE)
  ELSE IF ~cutEnabled THEN SmSetEnabled(s, FALSE)
  ELSE SmSetEnabled(
         SmSetInvert(
           SmSetPlaneOffset(
             SmSetPlaneAxis(SmSetMode(s, "plane"),
                            IF cutOrientation = "horizontal" THEN "z"
                            ELSE "x"),
             cutOffset),
           cutFlip),
         TRUE)

\* a GLB model is the only model, and no load is running
GlbOnly ==
  /\ glbRoot # 0
  /\ ~hasIfc
  /\ \A l \in LdIds : ldCalls[l].pc = "idle"

\* flushCutQueue is between its `await this.applyCutFromState()`, whose
\* promise is settled already for a GLB model, and the resumption
GlbFlushPending == cutApplyInFlight

\* what the cut and section handlers leave alone with a GLB model
glbRest == <<toolVars, selVars, hasIfc, hoverVars, selection,
             primarySelection, measVars, cutDrag, cutOrientation, cutOffset,
             disposed, boxEditing, classVisibility, storeyVisibility,
             manualHidden, filteredOut, appliedHidden,
             visibilityForceFullApply, isolateActive, hiderHidden, vis,
             cutIgnoredClasses, loading, opsStarted, clearVars, mmVars,
             pfVars, bvhVars, ldVars, csVars, metaVars, smArrayLen,
             smLockRotation, smBoxPose, smBoxRaf, smBoxFrames, smChanges,
             smMaterials>>
smSetters == <<smEnabled, smMode, smInvert, smActive, smPlaneAxis,
               smPlaneOffset, smPlane, smBoxPlanes, matPlanes,
               matClipIntersection>>

\* ViewerApp.enableCut
G_enableCut(en) ==
  /\ GlbOnly /\ ~GlbFlushPending
  /\ cutEnabled' = en
  /\ QueueApplyCut
  /\ UNCHANGED <<cutFlip, sectionEnabled, sectionInvert, cutHidden,
                 cutApplyInFlight, smSetters>>
  /\ UNCHANGED glbRest

\* ViewerApp.setCutFlip
G_setCutFlip(flip) ==
  /\ GlbOnly /\ ~GlbFlushPending
  /\ cutFlip' = flip
  /\ QueueApplyCut
  /\ UNCHANGED <<cutEnabled, sectionEnabled, sectionInvert, cutHidden,
                 cutApplyInFlight, smSetters>>
  /\ UNCHANGED glbRest

\* ViewerApp.setSectionEnabled: the store, setEnabled, setMode("box") and,
\* when the box is switched off over an enabled cut, a queued cut apply;
\* no fragments model is listed, so refreshSectionMaterialsIfNeeded
\* registers nothing
G_setSectionEnabled(en) ==
  /\ GlbOnly /\ ~GlbFlushPending
  /\ sectionEnabled' = en
  /\ SmAssign(SmSetMode(SmSetEnabled(SmNow, en), "box"))
  /\ IF ~en /\ cutEnabled
     THEN QueueApplyCut
     ELSE UNCHANGED <<cutApplyQueued, cutApplyRaf>>
  /\ UNCHANGED <<cutEnabled, cutFlip, sectionInvert, cutHidden,
                 cutApplyInFlight>>
  /\ UNCHANGED glbRest

\* ViewerApp.setSectionInvert
G_setSectionInvert(invert) ==
  /\ GlbOnly /\ ~GlbFlushPending
  /\ sectionInvert' = invert
  /\ SmAssign(SmSetInvert(SmNow, invert))
  /\ UNCHANGED <<cutEnabled, cutFlip, sectionEnabled, cutHidden,
                 cutApplyInFlight, cutApplyQueued, cutApplyRaf>>
  /\ UNCHANGED glbRest

\* one turn of the loop of flushCutQueue with a GLB model
GlbFlushLoop ==
  IF cutApplyQueued /\ ~disposed
  THEN /\ cutApplyQueued' = FALSE
       /\ cutApplyInFlight' = TRUE
       /\ cutHidden' = EmptyMap
       /\ SmAssign(ApplyGlbCutFromState(SmNow))
  ELSE /\ cutApplyInFlight' = FALSE
       /\ UNCHANGED <<cutApplyQueued, cutHidden, smSetters>>

\* the animation-frame callback of queueApplyCut
G_cutRafCallback ==
  /\ GlbOnly /\ ~GlbFlushPending
  /\ cutApplyRaf
  /\ cutApplyRaf' = FALSE
  /\ IF disposed
     THEN UNCHANGED <<cutApplyQueued, cutApplyInFlight, cutHidden, smSetters>>
     ELSE GlbFlushLoop
  /\ UNCHANGED <<cutEnabled, cutFlip, sectionEnabled, sectionInvert>>
  /\ UNCHANGED glbRest

\* applyCutFromState has returned to the loop of flushCutQueue
G_flushResumes ==
  /\ GlbOnly /\ GlbFlushPending
  /\ GlbFlushLoop
  /\ UNCHANGED <<cutEnabled, cutFlip, sectionEnabled, sectionInvert,
                 cutApplyRaf>>
  /\ UNCHANGED glbRest

\* the one load of this specification: a GLB file into the fresh viewer
G_loadStarts ==
  /\ ldStarted = 0
  /\ LD_start(MetaLoad, "glb")

NextGlbCut ==
  \/ G_loadStarts
  \/ LD_selectionCleared(MetaLoad)
  \/ LD_hoverCleared(MetaLoad)
  \/ \E pose \in Poses : LD_providerEnds(MetaLoad, TRUE, pose)
  \/ LD_framed(MetaLoad)
  \/ LD_finishes(MetaLoad)
  \/ \E en \in BOOLEAN : G_enableCut(en)
  \/ \E flip \in BOOLEAN : G_setCutFlip(flip)
  \/ \E en \in BOOLEAN : G_setSectionEnabled(en)
  \/ \E invert \in BOOLEAN : G_setSectionInvert(invert)
  \/ G_cutRafCallback
  \/ G_flushResumes

SpecGlbCut == InitLoad /\ [][NextGlbCut]_vars

\* C40: whenever box clipping is the active mode of the SectionManager and
\* the cut queue is idle, the manager's invert flag is store.section.invert
C40_BoxInvertIsSectionInvert ==
  smActive = "box" /\ CutQueueIdle => smInvert = sectionInvert

====
